---- MODULE Spec2Model ----
(***************************************************************************)
(* Model of the data-structure core of DSAWebsiteGroupings: the numeric    *)
(* BST of the visualizer (bst_insert, bst_search, bst_find_max,            *)
(* bst_delete and their routes), the linked Stack and QueueLinked classes  *)
(* and the list-backed visualizer queue.                                   *)
(*                                                                         *)
(* Paths below are relative to src/ :                                      *)
(*   inner = DSAWebsiteGroupings-main/DSAWebsiteGroupings-main/app.py      *)
(*   outer = app.py                                                        *)
(***************************************************************************)
EXTENDS Integers, Sequences, FiniteSets, TLC

VARIABLES
    bst_root,   \* inner:431  module-level root of the numeric BST
    bst_call,   \* the request being answered: handler name and its JSON value
    bst_resp,   \* the JSON body the handler returned
    bst_prev,   \* history: bst_root as it was when that request arrived
    copies,     \* history: per key, inserts minus deletes that found the key
    ex_pos      \* position in the worked example's insertion script

VARIABLES
    s_nodes,    \* the Node objects a Stack has created, by identity 1, 2, ...
    s_head,     \* Stack.head: a node identity, or NoRef for None
    s_length,   \* Stack.length
    s_out,      \* the list the last Stack.to_list() returned
    s_pushed    \* history: the values pushed, in push order

VARIABLES
    q_nodes,    \* the Node objects a QueueLinked has created, by identity
    q_head,     \* QueueLinked.head
    q_tail,     \* QueueLinked.tail
    q_length,   \* QueueLinked.length
    q_ret,      \* what the last QueueLinked.dequeue() returned
    q_prev,     \* history: head, tail and length before the last call
    q_enq,      \* history: the values enqueued, in order
    q_deq       \* history: the values non-empty dequeues returned, in order

VARIABLES
    queue,      \* inner:428  the list behind the queue visualizer
    vq_call,    \* the JSON value of the last /queue/enqueue request
    vq_prev,    \* history: queue as it was when the last request arrived
    vq_resp,    \* status of the JSON body the last queue route returned
    vq_enq,     \* history: the values the route appended, in order
    vq_deq,     \* history: the values the route removed, in order
    lin_call    \* name of the last Stack / QueueLinked / queue-route call

VARIABLES
    tree_root,  \* inner:430  module-level root of the generic tree
    tree_call,  \* the JSON value of the last /tree/insert request
    tree_resp,  \* status of the JSON body the last /tree/insert returned
    tree_prev,  \* history: tree_root as it was when that request arrived
    tree_vals   \* history: the values of the accepted inserts, in order

VARIABLES
    bst,        \* outer:351  bst["root"], the BST behind the /bst/insert API
    obst_call,  \* the JSON value of the last outer /bst/insert request
    obst_resp,  \* status of the JSON body the last outer BST route returned
    obst_prev   \* history: bst["root"] as it was when that request arrived

VARIABLES
    feed_root,  \* outer:65  BST.root of a BST object (string keys)
    feed_call,  \* the last call on the BST object: method name and argument
    feed_out,   \* the list the last BST.dfs_search() returned
    feed_prev   \* history: BST.root before the last call

VARIABLES
    stack,      \* inner:429  the list behind the stack visualizer
    st_call,    \* the last inner /stack request: route and JSON value
    st_resp,    \* status of the JSON body that request returned
    st_prev,    \* history: stack as it was when that request arrived
    st_hist     \* history: the accepted pushes and the pops, in order

VARIABLES
    o_stack,    \* outer:347  the list behind the outer /stack API
    os_call,    \* the last outer /stack request: route and JSON value
    os_resp,    \* status of the JSON body that request returned
    os_prev,    \* history: the list as it was when that request arrived
    os_hist     \* history: the pushes and the pops, in order

VARIABLES
    posts,      \* outer:131  the rows of the posts table, as [id, title]
    next_id,    \* outer:132  the id AUTOINCREMENT gives the next row
    db_call,    \* the last call that touched the table: name and argument
    db_resp,    \* status of the JSON body the last /delete request returned
    feed,       \* the list the last get_feed_stack() returned
    search_ins, \* the rows whose titles the last perform_bst_search()
                \* inserted into its BST, in insertion order
    search_out  \* the list the last perform_bst_search() returned

VARIABLES
    pc,         \* per request thread: the statement of tree_insert_route
                \* it executes next
    r_new,      \* per thread: the value of its new_node, <<>> before it is
                \* created or when the request was rejected
    r_q,        \* per thread: its local list q of node references
    r_node,     \* per thread: its local variable node, a node reference
    r_slot,     \* history, per thread: the slot it assigned, as <<path>>
    r_base,     \* history: the tree's node count when the first of the
                \* concurrent requests began
    overlap     \* history: a request began while the other was under way

VARIABLES
    bt_root,    \* inner:519  module-level root of the manual binary tree
    bt_call,    \* the last inner /bt request: route and JSON value
    bt_resp,    \* status of the JSON body that request returned
    bt_prev     \* history: bt_root as it was when that request arrived

VARIABLES
    bt,         \* outer:350  bt["root"]; a node is <<[id, value], left, right>>
    obt_call,   \* the last outer /bt request: route, parent and value
    obt_prev,   \* history: bt["root"] as it was when that request arrived
    obt_ids     \* the number of ids new_id() has given out

bst_vars == <<bst_root, bst_call, bst_resp, bst_prev, copies, ex_pos>>

outer_bst_vars == <<bst, obst_call, obst_resp, obst_prev>>

feed_vars == <<feed_root, feed_call, feed_out, feed_prev>>

tree_vars == <<tree_root, tree_call, tree_resp, tree_prev, tree_vals>>

stack_vars == <<s_nodes, s_head, s_length, s_out, s_pushed>>

linked_queue_vars ==
    <<q_nodes, q_head, q_tail, q_length, q_ret, q_prev, q_enq, q_deq>>

list_queue_vars == <<queue, vq_call, vq_prev, vq_resp, vq_enq, vq_deq>>

inner_stack_vars == <<stack, st_call, st_resp, st_prev, st_hist>>

outer_stack_vars == <<o_stack, os_call, os_resp, os_prev, os_hist>>

list_stack_vars == <<inner_stack_vars, outer_stack_vars>>

posts_vars ==
    <<posts, next_id, db_call, db_resp, feed, search_ins, search_out>>

\* The variables of the structures modelled last.
race_vars == <<pc, r_new, r_q, r_node, r_slot, r_base, overlap>>

inner_bt_vars == <<bt_root, bt_call, bt_resp, bt_prev>>

outer_bt_vars == <<bt, obt_call, obt_prev, obt_ids>>

later_vars == <<posts_vars, race_vars, inner_bt_vars, outer_bt_vars>>

\* The variables of the structures modelled after the linear ones.
rest_vars ==
    <<tree_vars, outer_bst_vars, feed_vars, list_stack_vars, later_vars>>

vars ==
    <<bst_vars, stack_vars, linked_queue_vars, list_queue_vars, lin_call,
      rest_vars>>

(***************************************************************************)
(* Bounds                                                                  *)
(***************************************************************************)
MaxNodes == 5       \* cap on the number of nodes in the numeric BST
MaxPush == 3        \* cap on the number of Stack.push calls
MaxEnqueue == 3     \* cap on the number of QueueLinked.enqueue calls
MaxAppend == 3      \* cap on the number of accepted /queue/enqueue requests
MaxTreeNodes == 5   \* cap on the number of nodes in the generic tree
MaxOuterNodes == 4  \* cap on the number of nodes in the outer API's BST
MaxFeedNodes == 4   \* cap on the number of nodes in a BST object
MaxStackOps == 4    \* cap on the number of pushes and pops on a list stack
MaxPosts == 3       \* cap on the number of rows ever inserted into posts
MaxRaceBase == 2    \* cap on the nodes in the tree before concurrent inserts
MaxBtIds == 4       \* cap on the number of ids given to nodes of outer bt

(***************************************************************************)
(* Python values                                                           *)
(***************************************************************************)
\* Python's None; also the empty subtree (a child reference that is None).
None == <<>>

\* A JSON value found under request.json["value"]: the key may be missing,
\* or hold null, a number or a string (a sequence of characters).
JMissing == [t |-> "missing", n |-> 0, s |-> <<>>]
JNull == [t |-> "null", n |-> 0, s |-> <<>>]
JNum(n) == [t |-> "num", n |-> n, s |-> <<>>]
JStr(s) == [t |-> "str", n |-> 0, s |-> s]

Whitespace == {" "}
Digits == <<"0", "1", "2", "3", "4", "5", "6", "7", "8", "9">>
IsDigit(c) == \E i \in 1..10 : Digits[i] = c
DigitVal(c) == (CHOOSE i \in 1..10 : Digits[i] = c) - 1

\* str.strip(): drop leading and trailing whitespace.
RECURSIVE LStrip(_)
LStrip(s) ==
    IF s # <<>> /\ Head(s) \in Whitespace THEN LStrip(Tail(s)) ELSE s

RECURSIVE RStrip(_)
RStrip(s) ==
    IF s # <<>> /\ s[Len(s)] \in Whitespace
    THEN RStrip(SubSeq(s, 1, Len(s) - 1))
    ELSE s

Strip(s) == RStrip(LStrip(s))

\* Value of a non-empty run of decimal digits, most significant first.
RECURSIVE DecimalValue(_)
DecimalValue(s) ==
    IF s = <<>> THEN 0
    ELSE 10 * DecimalValue(SubSeq(s, 1, Len(s) - 1)) + DigitVal(s[Len(s)])

AllDigits(s) == s # <<>> /\ \A i \in 1..Len(s) : IsDigit(s[i])

\* int(str): surrounding whitespace is ignored, then an optional sign and a
\* non-empty run of digits; any other text over the characters used here
\* (letters, blanks, the empty string) raises ValueError.
IntOfStr(s) ==
    LET b == Strip(s)
        signed == b # <<>> /\ Head(b) \in {"-", "+"}
        body == IF signed THEN Tail(b) ELSE b
    IN IF AllDigits(body)
       THEN [ok |-> TRUE,
             val |-> IF signed /\ Head(b) = "-"
                     THEN 0 - DecimalValue(body) ELSE DecimalValue(body)]
       ELSE [ok |-> FALSE, val |-> 0]

\* int(val) inside try/except: a number converts to itself, a string is
\* parsed, None (missing key or null) raises TypeError.
ParseInt(v) ==
    IF v.t = "num" THEN [ok |-> TRUE, val |-> v.n]
    ELSE IF v.t = "str" THEN IntOfStr(v.s)
    ELSE [ok |-> FALSE, val |-> 0]

(***************************************************************************)
(* TreeNode and the BST helpers                                            *)
(***************************************************************************)
\* A node is <<val, left, right>>; an absent child is None.
TreeNode(v) == <<v, None, None>>
ValOf(node) == node[1]
LeftOf(node) == node[2]
RightOf(node) == node[3]

\* Variant of bst_insert: a key equal to the node's key goes left.
RECURSIVE bst_insert_ties_left(_, _)
bst_insert_ties_left(node, v) ==
    IF node = None THEN TreeNode(v)
    ELSE IF v <= ValOf(node)
         THEN <<ValOf(node), bst_insert_ties_left(LeftOf(node), v), RightOf(node)>>
         ELSE <<ValOf(node), LeftOf(node), bst_insert_ties_left(RightOf(node), v)>>

RECURSIVE bst_insert(_, _)
bst_insert(node, v) ==
    IF node = None THEN TreeNode(v)
    ELSE IF v < ValOf(node)
         THEN <<ValOf(node), bst_insert(LeftOf(node), v), RightOf(node)>>
         ELSE <<ValOf(node), LeftOf(node), bst_insert(RightOf(node), v)>>

\* Variant of bst_search that descends to the wrong side.
RECURSIVE bst_search_swapped(_, _)
bst_search_swapped(node, v) ==
    IF node = None THEN FALSE
    ELSE IF ValOf(node) = v THEN TRUE
    ELSE IF v > ValOf(node) THEN bst_search_swapped(LeftOf(node), v)
    ELSE bst_search_swapped(RightOf(node), v)

RECURSIVE bst_search(_, _)
bst_search(node, v) ==
    IF node = None THEN FALSE
    ELSE IF ValOf(node) = v THEN TRUE
    ELSE IF v < ValOf(node) THEN bst_search(LeftOf(node), v)
    ELSE bst_search(RightOf(node), v)

\* Variant of bst_find_max: one step to the right instead of a loop.
bst_find_max_one_step(node) ==
    IF node = None THEN None
    ELSE IF RightOf(node) # None THEN ValOf(RightOf(node))
    ELSE ValOf(node)

RECURSIVE bst_find_max(_)
bst_find_max(node) ==
    IF node = None THEN None
    ELSE IF RightOf(node) # None THEN bst_find_max(RightOf(node))
    ELSE ValOf(node)

\* Variants of bst_delete.
\* (a) the two-child case promotes the successor, the minimum of the right
\*     subtree, instead of the predecessor.
RECURSIVE LeftmostKey(_)
LeftmostKey(node) ==
    IF LeftOf(node) # None THEN LeftmostKey(LeftOf(node)) ELSE ValOf(node)

RECURSIVE bst_delete_successor(_, _)
bst_delete_successor(node, v) ==
    IF node = None THEN None
    ELSE IF v < ValOf(node)
         THEN <<ValOf(node), bst_delete_successor(LeftOf(node), v), RightOf(node)>>
    ELSE IF v > ValOf(node)
         THEN <<ValOf(node), LeftOf(node), bst_delete_successor(RightOf(node), v)>>
    ELSE IF LeftOf(node) = None /\ RightOf(node) = None THEN None
    ELSE IF LeftOf(node) = None THEN RightOf(node)
    ELSE IF RightOf(node) = None THEN LeftOf(node)
    ELSE LET temp == LeftmostKey(RightOf(node))
         IN <<temp, LeftOf(node), bst_delete_successor(RightOf(node), temp)>>

\* (b) the two-child case copies the predecessor's key up but does not
\*     remove the predecessor from the left subtree.
RECURSIVE bst_delete_keep_pred(_, _)
bst_delete_keep_pred(node, v) ==
    IF node = None THEN None
    ELSE IF v < ValOf(node)
         THEN <<ValOf(node), bst_delete_keep_pred(LeftOf(node), v), RightOf(node)>>
    ELSE IF v > ValOf(node)
         THEN <<ValOf(node), LeftOf(node), bst_delete_keep_pred(RightOf(node), v)>>
    ELSE IF LeftOf(node) = None /\ RightOf(node) = None THEN None
    ELSE IF LeftOf(node) = None THEN RightOf(node)
    ELSE IF RightOf(node) = None THEN LeftOf(node)
    ELSE <<bst_find_max(LeftOf(node)), LeftOf(node), RightOf(node)>>

\* (c) the comparison "val > node.val" is missing: every key that is not
\*     smaller than the node's key is treated as a match.
RECURSIVE bst_delete_two_way(_, _)
bst_delete_two_way(node, v) ==
    IF node = None THEN None
    ELSE IF v < ValOf(node)
         THEN <<ValOf(node), bst_delete_two_way(LeftOf(node), v), RightOf(node)>>
    ELSE IF LeftOf(node) = None /\ RightOf(node) = None THEN None
    ELSE IF LeftOf(node) = None THEN RightOf(node)
    ELSE IF RightOf(node) = None THEN LeftOf(node)
    ELSE LET temp == bst_find_max(LeftOf(node))
         IN <<temp, bst_delete_two_way(LeftOf(node), temp), RightOf(node)>>

\* Variant of bst_height: the shorter subtree counts instead of the taller.
RECURSIVE bst_height_min(_)
bst_height_min(node) ==
    IF node = None THEN 0
    ELSE LET l == bst_height_min(LeftOf(node))
             r == bst_height_min(RightOf(node))
         IN 1 + (IF l <= r THEN l ELSE r)

RECURSIVE bst_height(_)
bst_height(node) ==
    IF node = None THEN 0
    ELSE LET l == bst_height(LeftOf(node))
             r == bst_height(RightOf(node))
         IN 1 + (IF l >= r THEN l ELSE r)

\* The number of nested calls of bst_delete that bst_delete(node, v) makes,
\* itself included.
RECURSIVE bst_delete_depth(_, _)
bst_delete_depth(node, v) ==
    IF node = None THEN 1
    ELSE IF v < ValOf(node) THEN 1 + bst_delete_depth(LeftOf(node), v)
    ELSE IF v > ValOf(node) THEN 1 + bst_delete_depth(RightOf(node), v)
    ELSE IF LeftOf(node) = None \/ RightOf(node) = None THEN 1
    ELSE 1 + bst_delete_depth(LeftOf(node), bst_find_max(LeftOf(node)))

\* (d) a node with only a right child is removed together with that child.
RECURSIVE bst_delete_drops_subtree(_, _)
bst_delete_drops_subtree(node, v) ==
    IF node = None THEN None
    ELSE IF v < ValOf(node)
         THEN <<ValOf(node), bst_delete_drops_subtree(LeftOf(node), v),
                RightOf(node)>>
    ELSE IF v > ValOf(node)
         THEN <<ValOf(node), LeftOf(node),
                bst_delete_drops_subtree(RightOf(node), v)>>
    ELSE IF LeftOf(node) = None THEN None
    ELSE IF RightOf(node) = None THEN LeftOf(node)
    ELSE LET temp == bst_find_max(LeftOf(node))
         IN <<temp, bst_delete_drops_subtree(LeftOf(node), temp),
              RightOf(node)>>

\* (e) the two-child case promotes the key of the left child instead of
\*     the maximum of the left subtree.
RECURSIVE bst_delete_left_child(_, _)
bst_delete_left_child(node, v) ==
    IF node = None THEN None
    ELSE IF v < ValOf(node)
         THEN <<ValOf(node), bst_delete_left_child(LeftOf(node), v),
                RightOf(node)>>
    ELSE IF v > ValOf(node)
         THEN <<ValOf(node), LeftOf(node),
                bst_delete_left_child(RightOf(node), v)>>
    ELSE IF LeftOf(node) = None /\ RightOf(node) = None THEN None
    ELSE IF LeftOf(node) = None THEN RightOf(node)
    ELSE IF RightOf(node) = None THEN LeftOf(node)
    ELSE LET temp == ValOf(LeftOf(node))
         IN <<temp, bst_delete_left_child(LeftOf(node), temp), RightOf(node)>>

RECURSIVE bst_delete(_, _)
bst_delete(node, v) ==
    IF node = None THEN None
    ELSE IF v < ValOf(node)
         THEN <<ValOf(node), bst_delete(LeftOf(node), v), RightOf(node)>>
    ELSE IF v > ValOf(node)
         THEN <<ValOf(node), LeftOf(node), bst_delete(RightOf(node), v)>>
    ELSE IF LeftOf(node) = None /\ RightOf(node) = None THEN None
    ELSE IF LeftOf(node) = None THEN RightOf(node)
    ELSE IF RightOf(node) = None THEN LeftOf(node)
    ELSE LET temp == bst_find_max(LeftOf(node))
         IN <<temp, bst_delete(LeftOf(node), temp), RightOf(node)>>

(***************************************************************************)
(* References into a tree: a node is named by the path from the root       *)
(* (1 = left, 2 = right), which stands for the Python reference to it.     *)
(***************************************************************************)
\* The subtree at a path, None when the path leaves the tree.
RECURSIVE At(_, _)
At(node, p) ==
    IF node = None THEN None
    ELSE IF p = <<>> THEN node
    ELSE At(node[Head(p) + 1], Tail(p))

\* The tree with the subtree at path p replaced by sub.
RECURSIVE Graft(_, _, _)
Graft(node, p, sub) ==
    IF p = <<>> THEN sub
    ELSE IF Head(p) = 1
         THEN <<ValOf(node), Graft(LeftOf(node), Tail(p), sub), RightOf(node)>>
         ELSE <<ValOf(node), LeftOf(node), Graft(RightOf(node), Tail(p), sub)>>

(***************************************************************************)
(* Measures of a tree, used to state properties (not part of the program)  *)
(***************************************************************************)
RECURSIVE Size(_)
Size(node) ==
    IF node = None THEN 0 ELSE 1 + Size(LeftOf(node)) + Size(RightOf(node))

\* Number of nodes of the tree holding key k.
RECURSIVE Count(_, _)
Count(node, k) ==
    IF node = None THEN 0
    ELSE (IF ValOf(node) = k THEN 1 ELSE 0)
         + Count(LeftOf(node), k) + Count(RightOf(node), k)

RECURSIVE KeysOf(_)
KeysOf(node) ==
    IF node = None THEN {}
    ELSE {ValOf(node)} \cup KeysOf(LeftOf(node)) \cup KeysOf(RightOf(node))

MaxOfSet(S) == CHOOSE m \in S : \A x \in S : x <= m

(***************************************************************************)
(* Requests                                                                *)
(***************************************************************************)
\* JSON values the visualizer page and other clients can send.
RawInputs ==
    { JMissing, JNull, JNum(4),
      JStr(<<"1">>), JStr(<<"2">>), JStr(<<"3">>), JStr(<<" ", "3", " ">>),
      JStr(<<"a", "b", "c">>), JStr(<<>>), JStr(<<" ">>) }

\* The worked example of the specification: 5,3,8,1,4,7,9 and a delete.
ExampleScript ==
    << JStr(<<"5">>), JStr(<<"3">>), JStr(<<"8">>), JStr(<<"1">>),
       JStr(<<"4">>), JStr(<<"7">>), JStr(<<"9">>) >>

ExampleInputs ==
    {ExampleScript[i] : i \in 1..Len(ExampleScript)} \cup {JStr(<<"2">>), JNull}

AllKeys ==
    {ParseInt(v).val : v \in {w \in RawInputs \cup ExampleInputs : ParseInt(w).ok}}

\* The JSON body of a BST route: ok / error / found, and under value the
\* "max" or "height" entry as <<x>>, or None when the entry is null or absent.
Response(status, error, found) ==
    [status |-> status, error |-> error, found |-> found, value |-> None]

ValueResponse(value) ==
    [status |-> "ok", error |-> "", found |-> FALSE, value |-> value]

(***************************************************************************)
(* BST routes                                                              *)
(***************************************************************************)
\* POST /bst/insert
bst_insert_route(v) ==
    /\ bst_call' = [op |-> "bst_insert_route", arg |-> v]
    /\ bst_prev' = bst_root
    /\ IF v.t \in {"null", "num"}
       THEN \* .strip() on a non-string raises AttributeError: HTTP 500
            /\ bst_resp' = Response("fault", "", FALSE)
            /\ UNCHANGED <<bst_root, copies>>
       ELSE LET val == IF v.t = "missing" THEN <<>> ELSE Strip(v.s)
                num == IntOfStr(val)
            IN IF val = <<>>
               THEN /\ bst_resp' = Response("fail", "", FALSE)
                    /\ UNCHANGED <<bst_root, copies>>
               ELSE IF ~num.ok
               THEN /\ bst_resp' = Response("fail", "numeric only", FALSE)
                    /\ UNCHANGED <<bst_root, copies>>
               ELSE /\ bst_root' = bst_insert(bst_root, num.val)
                    /\ bst_resp' = Response("ok", "", FALSE)
                    /\ copies' = [copies EXCEPT ![num.val] = @ + 1]

\* POST /bst/search
bst_search_route(v) ==
    LET num == ParseInt(v)
    IN /\ bst_call' = [op |-> "bst_search_route", arg |-> v]
       /\ bst_prev' = bst_root
       /\ UNCHANGED <<bst_root, copies>>
       /\ IF ~num.ok
          THEN bst_resp' = Response("fail", "", FALSE)
          ELSE bst_resp' = Response("ok", "", bst_search(bst_root, num.val))

\* POST /bst/delete
bst_delete_route(v) ==
    LET num == ParseInt(v)
    IN /\ bst_call' = [op |-> "bst_delete_route", arg |-> v]
       /\ bst_prev' = bst_root
       /\ IF ~num.ok
          THEN /\ bst_resp' = Response("fail", "", FALSE)
               /\ UNCHANGED <<bst_root, copies>>
          ELSE /\ bst_root' = bst_delete(bst_root, num.val)
               /\ bst_resp' = Response("ok", "", FALSE)
               /\ copies' = [copies EXCEPT
                                ![num.val] = IF @ > 0 THEN @ - 1 ELSE 0]

\* GET /bst/max
bst_max_route ==
    /\ bst_call' = [op |-> "bst_max_route", arg |-> JMissing]
    /\ bst_prev' = bst_root
    /\ bst_resp' = ValueResponse(IF bst_root = None THEN None
                                 ELSE <<bst_find_max(bst_root)>>)
    /\ UNCHANGED <<bst_root, copies>>

\* GET /bst/height
bst_height_route ==
    /\ bst_call' = [op |-> "bst_height_route", arg |-> JMissing]
    /\ bst_prev' = bst_root
    /\ bst_resp' = ValueResponse(<<bst_height(bst_root)>>)
    /\ UNCHANGED <<bst_root, copies>>

(***************************************************************************)
(* Node, Stack and QueueLinked                                             *)
(***************************************************************************)
\* A reference to a Node is its identity, a positive number; NoRef is a
\* reference that is None.
NoRef == 0

\* Node(data): the value and two references that start as None.
Node(data) == [node |-> data, left |-> NoRef, right |-> NoRef]

\* Values handed to Stack.push and QueueLinked.enqueue.
Values == {"a", "b"}

\* Variants of Stack.push: (a) the new node is not linked to the old head;
\* (b) the length counter is not advanced.
push_unlinked(data) ==
    LET n == Len(s_nodes) + 1
    IN /\ s_nodes' = Append(s_nodes, Node(data))
       /\ s_head' = n
       /\ s_length' = s_length + 1
       /\ s_pushed' = Append(s_pushed, data)
       /\ lin_call' = "push"
       /\ UNCHANGED s_out

push_uncounted(data) ==
    LET n == Len(s_nodes) + 1
    IN /\ s_nodes' = Append(s_nodes, [Node(data) EXCEPT !.left = s_head])
       /\ s_head' = n
       /\ s_length' = s_length
       /\ s_pushed' = Append(s_pushed, data)
       /\ lin_call' = "push"
       /\ UNCHANGED s_out

\* Stack.push(data)
push(data) ==
    LET n == Len(s_nodes) + 1
    IN /\ s_nodes' = Append(s_nodes, [Node(data) EXCEPT !.left = s_head])
       /\ s_head' = n
       /\ s_length' = s_length + 1
       /\ s_pushed' = Append(s_pushed, data)
       /\ lin_call' = "push"
       /\ UNCHANGED s_out

\* The loop of Stack.to_list: the values from cur along the left links.
\* fuel bounds the walk by the number of nodes there are.
RECURSIVE WalkLeft(_, _, _)
WalkLeft(nodes, cur, fuel) ==
    IF cur = NoRef \/ fuel = 0 THEN <<>>
    ELSE <<nodes[cur].node>> \o WalkLeft(nodes, nodes[cur].left, fuel - 1)

\* Variant of Stack.to_list: the walk advances self.head itself, which
\* leaves the stack empty.
to_list_draining ==
    /\ s_out' = WalkLeft(s_nodes, s_head, Len(s_nodes))
    /\ lin_call' = "to_list"
    /\ s_head' = NoRef
    /\ UNCHANGED <<s_nodes, s_length, s_pushed>>

\* Stack.to_list()
to_list ==
    /\ s_out' = WalkLeft(s_nodes, s_head, Len(s_nodes))
    /\ lin_call' = "to_list"
    /\ UNCHANGED <<s_nodes, s_head, s_length, s_pushed>>

\* Return values of QueueLinked.dequeue.
ReturnNone == [kind |-> "None", val |-> ""]
ReturnValue(v) == [kind |-> "value", val |-> v]
RaisedError == [kind |-> "error", val |-> ""]

\* Variants of QueueLinked.enqueue: (a) the new node is linked in front of
\* the head; (b) the tail reference is not advanced after linking.
enqueue_front(data) ==
    LET n == Len(q_nodes) + 1
    IN /\ IF q_head = NoRef
          THEN /\ q_nodes' = Append(q_nodes, Node(data))
               /\ q_head' = n
               /\ q_tail' = n
          ELSE /\ q_nodes' = Append(q_nodes,
                                    [Node(data) EXCEPT !.right = q_head])
               /\ q_head' = n
               /\ UNCHANGED q_tail
       /\ q_length' = q_length + 1
       /\ q_prev' = [head |-> q_head, tail |-> q_tail, length |-> q_length]
       /\ q_enq' = Append(q_enq, data)
       /\ lin_call' = "enqueue"
       /\ UNCHANGED <<q_ret, q_deq>>

enqueue_stale_tail(data) ==
    LET n == Len(q_nodes) + 1
    IN /\ IF q_head = NoRef
          THEN /\ q_nodes' = Append(q_nodes, Node(data))
               /\ q_head' = n
               /\ q_tail' = n
          ELSE /\ q_nodes' = Append([q_nodes EXCEPT ![q_tail].right = n],
                                    Node(data))
               /\ UNCHANGED <<q_head, q_tail>>
       /\ q_length' = q_length + 1
       /\ q_prev' = [head |-> q_head, tail |-> q_tail, length |-> q_length]
       /\ q_enq' = Append(q_enq, data)
       /\ lin_call' = "enqueue"
       /\ UNCHANGED <<q_ret, q_deq>>

\* QueueLinked.enqueue(data)
enqueue(data) ==
    LET n == Len(q_nodes) + 1
    IN /\ IF q_head = NoRef
          THEN /\ q_nodes' = Append(q_nodes, Node(data))
               /\ q_head' = n
               /\ q_tail' = n
          ELSE /\ q_nodes' = Append([q_nodes EXCEPT ![q_tail].right = n],
                                    Node(data))
               /\ q_tail' = n
               /\ UNCHANGED q_head
       /\ q_length' = q_length + 1
       /\ q_prev' = [head |-> q_head, tail |-> q_tail, length |-> q_length]
       /\ q_enq' = Append(q_enq, data)
       /\ lin_call' = "enqueue"
       /\ UNCHANGED <<q_ret, q_deq>>

\* Variant of QueueLinked.dequeue: the counter is decremented before the
\* emptiness test, which looks at head.
dequeue_late_check ==
    /\ q_prev' = [head |-> q_head, tail |-> q_tail, length |-> q_length]
    /\ lin_call' = "dequeue"
    /\ q_length' = q_length - 1
    /\ IF q_head = NoRef
       THEN /\ q_ret' = ReturnNone
            /\ UNCHANGED <<q_nodes, q_head, q_tail, q_enq, q_deq>>
       ELSE /\ q_head' = q_nodes[q_head].right
            /\ q_ret' = ReturnValue(q_nodes[q_head].node)
            /\ q_deq' = Append(q_deq, q_nodes[q_head].node)
            /\ UNCHANGED <<q_nodes, q_tail, q_enq>>

\* QueueLinked.dequeue()
dequeue ==
    /\ q_prev' = [head |-> q_head, tail |-> q_tail, length |-> q_length]
    /\ lin_call' = "dequeue"
    /\ IF q_length = 0
       THEN /\ q_ret' = ReturnNone
            /\ UNCHANGED <<q_nodes, q_head, q_tail, q_length, q_enq, q_deq>>
       ELSE IF q_head = NoRef
       THEN \* self.head.right on None raises AttributeError
            /\ q_ret' = RaisedError
            /\ UNCHANGED <<q_nodes, q_head, q_tail, q_length, q_enq, q_deq>>
       ELSE /\ q_head' = q_nodes[q_head].right
            /\ q_length' = q_length - 1
            /\ q_ret' = ReturnValue(q_nodes[q_head].node)
            /\ q_deq' = Append(q_deq, q_nodes[q_head].node)
            /\ UNCHANGED <<q_nodes, q_tail, q_enq>>

(***************************************************************************)
(* The list-backed queue of the visualizer                                 *)
(***************************************************************************)
\* JSON values sent to /queue/enqueue.
QueueInputs ==
    { JMissing, JNull, JNum(4), JStr(<<>>), JStr(<<" ">>),
      JStr(<<"a">>), JStr(<<" ", "b", " ">>) }

\* POST /queue/enqueue
queue_enqueue(v) ==
    /\ lin_call' = "queue_enqueue"
    /\ vq_call' = v
    /\ vq_prev' = queue
    /\ IF v.t \in {"null", "num"}
       THEN \* .strip() on a non-string raises AttributeError: HTTP 500
            /\ vq_resp' = "fault"
            /\ UNCHANGED <<queue, vq_enq, vq_deq>>
       ELSE LET val == IF v.t = "missing" THEN <<>> ELSE Strip(v.s)
            IN IF val = <<>>
               THEN /\ vq_resp' = "fail"
                    /\ UNCHANGED <<queue, vq_enq, vq_deq>>
               ELSE /\ queue' = Append(queue, val)
                    /\ vq_enq' = Append(vq_enq, val)
                    /\ vq_resp' = "ok"
                    /\ UNCHANGED vq_deq

\* POST /queue/dequeue
queue_dequeue ==
    /\ lin_call' = "queue_dequeue"
    /\ vq_call' = JMissing
    /\ vq_prev' = queue
    /\ vq_resp' = "ok"
    /\ IF queue # <<>>
       THEN /\ queue' = Tail(queue)
            /\ vq_deq' = Append(vq_deq, Head(queue))
            /\ UNCHANGED vq_enq
       ELSE UNCHANGED <<queue, vq_enq, vq_deq>>

(***************************************************************************)
(* The list-backed stacks: the visualizer's and the outer API's            *)
(***************************************************************************)
\* JSON values sent to the inner /stack/push.
StackInputs ==
    { JMissing, JNull, JNum(4), JStr(<<" ">>),
      JStr(<<"a">>), JStr(<<" ", "b", " ">>) }

\* An entry of a history of stack requests.
Pushed(val) == <<"push", val>>
Popped == <<"pop">>

\* POST /stack/push of the inner application
stack_push(v) ==
    /\ st_call' = [op |-> "stack_push", arg |-> v]
    /\ st_prev' = stack
    /\ IF v.t \in {"null", "num"}
       THEN \* .strip() on a non-string raises AttributeError: HTTP 500
            /\ st_resp' = "fault"
            /\ UNCHANGED <<stack, st_hist>>
       ELSE LET val == IF v.t = "missing" THEN <<>> ELSE Strip(v.s)
            IN IF val = <<>>
               THEN /\ st_resp' = "fail"
                    /\ UNCHANGED <<stack, st_hist>>
               ELSE /\ stack' = Append(stack, val)
                    /\ st_hist' = Append(st_hist, Pushed(val))
                    /\ st_resp' = "ok"

\* Variant of stack_pop: the oldest value is removed (pop(0)).
stack_pop_front ==
    /\ st_call' = [op |-> "stack_pop", arg |-> JMissing]
    /\ st_prev' = stack
    /\ st_resp' = "ok"
    /\ st_hist' = Append(st_hist, Popped)
    /\ stack' = IF stack # <<>> THEN Tail(stack) ELSE stack

\* POST /stack/pop of the inner application
stack_pop ==
    /\ st_call' = [op |-> "stack_pop", arg |-> JMissing]
    /\ st_prev' = stack
    /\ st_resp' = "ok"
    /\ st_hist' = Append(st_hist, Popped)
    /\ stack' = IF stack # <<>> THEN SubSeq(stack, 1, Len(stack) - 1)
                 ELSE stack

\* JSON values sent to the outer /stack/push.
OuterStackInputs ==
    { JMissing, JNull, JNum(4), JStr(<<" ">>), JStr(<<"a">>) }

\* request.json.get("value"): the value, None when the key is missing.
GetValue(v) == IF v.t = "missing" THEN JNull ELSE v

\* POST /stack/push of the outer application
s_push(v) ==
    /\ os_call' = [op |-> "s_push", arg |-> v]
    /\ os_prev' = o_stack
    /\ o_stack' = Append(o_stack, GetValue(v))
    /\ os_hist' = Append(os_hist, Pushed(GetValue(v)))
    /\ os_resp' = "ok"

\* POST /stack/pop of the outer application
s_pop ==
    /\ os_call' = [op |-> "s_pop", arg |-> JMissing]
    /\ os_prev' = o_stack
    /\ os_resp' = "ok"
    /\ os_hist' = Append(os_hist, Popped)
    /\ o_stack' = IF o_stack # <<>> THEN SubSeq(o_stack, 1, Len(o_stack) - 1)
                   ELSE o_stack

(***************************************************************************)
(* The generic tree of the visualizer                                      *)
(***************************************************************************)
\* JSON values sent to /tree/insert.
TreeInputs ==
    { JStr(<<"A">>), JStr(<<"B">>), JStr(<<"C">>), JStr(<<"D">>),
      JStr(<<"E">>), JStr(<<" ", "A", " ">>),
      JMissing, JNull, JNum(4), JStr(<<" ">>) }

\* Variant of the insertion loop: the pending list is used as a stack
\* (q.pop() instead of q.pop(0)), which makes the walk depth-first.
RECURSIVE level_order_loop_lifo(_, _, _)
level_order_loop_lifo(root, q, new_node) ==
    IF q = <<>> THEN root
    ELSE LET p == q[Len(q)]
             node == At(root, p)
         IN IF LeftOf(node) = None THEN Graft(root, p \o <<1>>, new_node)
            ELSE IF RightOf(node) = None
            THEN Graft(root, p \o <<2>>, new_node)
            ELSE level_order_loop_lifo(
                     root,
                     SubSeq(q, 1, Len(q) - 1) \o <<p \o <<1>>, p \o <<2>>>>,
                     new_node)

\* Variant of the insertion loop: the children of a full node are not
\* appended to the pending list, so the loop can run out of nodes.
level_order_loop_root_only(root, q, new_node) ==
    IF q = <<>> THEN root
    ELSE LET p == Head(q)
             node == At(root, p)
         IN IF LeftOf(node) = None THEN Graft(root, p \o <<1>>, new_node)
            ELSE IF RightOf(node) = None
            THEN Graft(root, p \o <<2>>, new_node)
            ELSE root

\* The while loop of tree_insert_route: q holds references to the nodes
\* still to visit; the loop ends at the first node with a free slot, or
\* when q is empty.
RECURSIVE level_order_loop(_, _, _)
level_order_loop(root, q, new_node) ==
    IF q = <<>> THEN root
    ELSE LET p == Head(q)
             node == At(root, p)
         IN IF LeftOf(node) = None THEN Graft(root, p \o <<1>>, new_node)
            ELSE IF RightOf(node) = None
            THEN Graft(root, p \o <<2>>, new_node)
            ELSE level_order_loop(
                     root, Tail(q) \o <<p \o <<1>>, p \o <<2>>>>, new_node)

\* POST /tree/insert
tree_insert_route(v) ==
    /\ tree_call' = v
    /\ tree_prev' = tree_root
    /\ IF v.t \in {"null", "num"}
       THEN \* .strip() on a non-string raises AttributeError: HTTP 500
            /\ tree_resp' = "fault"
            /\ UNCHANGED <<tree_root, tree_vals>>
       ELSE LET val == IF v.t = "missing" THEN <<>> ELSE Strip(v.s)
                new_node == TreeNode(val)
            IN IF val = <<>>
               THEN /\ tree_resp' = "fail"
                    /\ UNCHANGED <<tree_root, tree_vals>>
               ELSE /\ tree_root' =
                          IF tree_root = None THEN new_node
                          ELSE level_order_loop(tree_root, << <<>> >>, new_node)
                    /\ tree_resp' = "ok"
                    /\ tree_vals' = Append(tree_vals, val)

(***************************************************************************)
(* The BST behind the outer /bst/insert API                                *)
(***************************************************************************)
\* The nested function insert(node, v) of the outer bst_insert route; a
\* node is the dict {"value", "left", "right"}, here <<value, left, right>>.
RECURSIVE insert(_, _)
insert(node, v) ==
    IF node = None THEN <<v, None, None>>
    ELSE IF v < ValOf(node)
         THEN <<ValOf(node), insert(LeftOf(node), v), RightOf(node)>>
         ELSE <<ValOf(node), LeftOf(node), insert(RightOf(node), v)>>

\* POST /bst/insert of the outer application (function bst_insert)
outer_bst_insert(v) ==
    LET value == ParseInt(v)
    IN /\ obst_call' = v
       /\ obst_prev' = bst
       /\ IF ~value.ok
          THEN /\ obst_resp' = "fail"
               /\ UNCHANGED bst
          ELSE /\ bst' = insert(bst, value.val)
               /\ obst_resp' = "ok"

\* POST /bst/reset of the outer application
bst_reset ==
    /\ obst_call' = JMissing
    /\ obst_prev' = bst
    /\ bst' = None
    /\ obst_resp' = "reset"

(***************************************************************************)
(* Python strings: order and case                                          *)
(***************************************************************************)
\* The characters used in titles and queries, in code point order.
Chars == <<" ", "A", "B", "a", "b">>
CharCode(c) == CHOOSE i \in 1..Len(Chars) : Chars[i] = c

\* a < b on strings: lexicographic by code point, a proper prefix first.
RECURSIVE StrLess(_, _)
StrLess(a, b) ==
    IF b = <<>> THEN FALSE
    ELSE IF a = <<>> THEN TRUE
    ELSE IF Head(a) # Head(b) THEN CharCode(Head(a)) < CharCode(Head(b))
    ELSE StrLess(Tail(a), Tail(b))

\* str.lower()
LowerChar(c) == IF c = "A" THEN "a" ELSE IF c = "B" THEN "b" ELSE c
Lower(str) == [i \in 1..Len(str) |-> LowerChar(str[i])]

\* w in text: w occurs in text as a contiguous run.
Contains(text, w) ==
    \E i \in 0..(Len(text) - Len(w)) : SubSeq(text, i + 1, i + Len(w)) = w

(***************************************************************************)
(* class BST (string keys), as used by the feed search                     *)
(***************************************************************************)
\* Titles inserted into a BST object and words searched for.
Titles ==
    { <<"b">>, <<"A", "b">>, <<"a", "B">>, <<"B">>, <<"a">>, <<>> }

Words == { <<>>, <<"a">>, <<"B">>, <<"a", "b">>, <<"A", "B">> }

\* Variant of the loop of BST.insert: a title equal to the node's title
\* goes left.
RECURSIVE insert_loop_ties_left(_, _, _)
insert_loop_ties_left(root, cur, data) ==
    IF ~StrLess(ValOf(At(root, cur)), data)
    THEN IF LeftOf(At(root, cur)) # None
         THEN insert_loop_ties_left(root, cur \o <<1>>, data)
         ELSE Graft(root, cur \o <<1>>, <<data, None, None>>)
    ELSE IF RightOf(At(root, cur)) # None
         THEN insert_loop_ties_left(root, cur \o <<2>>, data)
         ELSE Graft(root, cur \o <<2>>, <<data, None, None>>)

\* The while-True loop of BST.insert: cur is a reference to a node.
RECURSIVE insert_loop(_, _, _)
insert_loop(root, cur, data) ==
    IF StrLess(data, ValOf(At(root, cur)))
    THEN IF LeftOf(At(root, cur)) # None
         THEN insert_loop(root, cur \o <<1>>, data)
         ELSE Graft(root, cur \o <<1>>, <<data, None, None>>)
    ELSE IF RightOf(At(root, cur)) # None
         THEN insert_loop(root, cur \o <<2>>, data)
         ELSE Graft(root, cur \o <<2>>, <<data, None, None>>)

\* BST.insert(data)
BST_insert(data) ==
    /\ feed_call' = [op |-> "insert", arg |-> data]
    /\ feed_prev' = feed_root
    /\ feed_root' = IF feed_root = None THEN <<data, None, None>>
                    ELSE insert_loop(feed_root, <<>>, data)
    /\ UNCHANGED feed_out

\* Variant of walk: the left subtree is visited before the node itself,
\* which lists the matches in sorted order.
RECURSIVE walk_in_order(_, _)
walk_in_order(node, w) ==
    IF node = None THEN <<>>
    ELSE walk_in_order(LeftOf(node), w)
         \o (IF Contains(Lower(ValOf(node)), w) THEN <<ValOf(node)>> ELSE <<>>)
         \o walk_in_order(RightOf(node), w)

\* The nested function walk(node) of BST.dfs_search: the matches of the
\* subtree appended in the order the walk meets them.
RECURSIVE walk(_, _)
walk(node, w) ==
    IF node = None THEN <<>>
    ELSE (IF Contains(Lower(ValOf(node)), w) THEN <<ValOf(node)>> ELSE <<>>)
         \o walk(LeftOf(node), w) \o walk(RightOf(node), w)

\* BST.dfs_search(word)
dfs_search(word) ==
    /\ feed_call' = [op |-> "dfs_search", arg |-> word]
    /\ feed_prev' = feed_root
    /\ feed_out' = IF word = <<>> THEN <<>> ELSE walk(feed_root, Lower(word))
    /\ UNCHANGED feed_root

(***************************************************************************)
(* The manual binary tree: the inner routes and the outer API              *)
(***************************************************************************)
\* JSON values sent to the inner /bt/add-left and /bt/add-right.
BtInputs ==
    { JMissing, JNull, JNum(4), JStr(<<" ">>),
      JStr(<<"a">>), JStr(<<" ", "b", " ">>) }

\* Variant of bt_add_left: the left child is assigned whether or not the
\* slot is empty.
bt_add_left_overwrite(v) ==
    /\ bt_call' = [op |-> "bt_add_left", arg |-> v]
    /\ bt_prev' = bt_root
    /\ IF v.t \in {"null", "num"}
       THEN /\ bt_resp' = "fault"
            /\ UNCHANGED bt_root
       ELSE LET val == IF v.t = "missing" THEN <<>> ELSE Strip(v.s)
            IN IF val = <<>>
               THEN /\ bt_resp' = "fail"
                    /\ UNCHANGED bt_root
               ELSE /\ bt_resp' = "ok"
                    /\ bt_root' =
                          IF bt_root = None THEN TreeNode(val)
                          ELSE <<ValOf(bt_root), TreeNode(val), RightOf(bt_root)>>

\* POST /bt/add-left of the inner application
bt_add_left(v) ==
    /\ bt_call' = [op |-> "bt_add_left", arg |-> v]
    /\ bt_prev' = bt_root
    /\ IF v.t \in {"null", "num"}
       THEN \* .strip() on a non-string raises AttributeError: HTTP 500
            /\ bt_resp' = "fault"
            /\ UNCHANGED bt_root
       ELSE LET val == IF v.t = "missing" THEN <<>> ELSE Strip(v.s)
            IN IF val = <<>>
               THEN /\ bt_resp' = "fail"
                    /\ UNCHANGED bt_root
               ELSE /\ bt_resp' = "ok"
                    /\ bt_root' =
                          IF bt_root = None THEN TreeNode(val)
                          ELSE IF LeftOf(bt_root) = None
                          THEN <<ValOf(bt_root), TreeNode(val), RightOf(bt_root)>>
                          ELSE bt_root

\* POST /bt/add-right of the inner application
bt_add_right(v) ==
    /\ bt_call' = [op |-> "bt_add_right", arg |-> v]
    /\ bt_prev' = bt_root
    /\ IF v.t \in {"null", "num"}
       THEN \* .strip() on a non-string raises AttributeError: HTTP 500
            /\ bt_resp' = "fault"
            /\ UNCHANGED bt_root
       ELSE LET val == IF v.t = "missing" THEN <<>> ELSE Strip(v.s)
            IN IF val = <<>>
               THEN /\ bt_resp' = "fail"
                    /\ UNCHANGED bt_root
               ELSE /\ bt_resp' = "ok"
                    /\ bt_root' =
                          IF bt_root = None THEN TreeNode(val)
                          ELSE IF RightOf(bt_root) = None
                          THEN <<ValOf(bt_root), LeftOf(bt_root), TreeNode(val)>>
                          ELSE bt_root

\* POST /bt/reset of the inner application
bt_reset ==
    /\ bt_call' = [op |-> "bt_reset", arg |-> JMissing]
    /\ bt_prev' = bt_root
    /\ bt_root' = None
    /\ bt_resp' = "ok"

\* The "parent" of an outer request: NoParent when the key is missing, else
\* an id; new_id() gives the ids 1, 2, ... and never gives UnknownId.
NoParent == 0
UnknownId == 0 - 1
Parents == {NoParent, UnknownId} \cup 1..MaxBtIds

\* A node dict of the outer binary tree with a fresh id.
BtNode(id, value) == <<[id |-> id, value |-> value], None, None>>

\* find_node_by_id(node, target): a reference to the first node, node
\* first, then left subtree, then right subtree, whose id is target, as
\* <<path>>; None when there is none.
RECURSIVE find_node_by_id(_, _, _)
find_node_by_id(root, p, target) ==
    IF At(root, p) = None THEN None
    ELSE IF ValOf(At(root, p)).id = target THEN <<p>>
    ELSE LET left == find_node_by_id(root, p \o <<1>>, target)
         IN IF left # None THEN left
            ELSE find_node_by_id(root, p \o <<2>>, target)

\* The while loop of the fallback: from cur along the links of one side
\* (1 = left, 2 = right) to the first node without a child on that side.
RECURSIVE LastOnSide(_, _, _)
LastOnSide(root, cur, side) ==
    IF At(root, cur \o <<side>>) # None
    THEN LastOnSide(root, cur \o <<side>>, side)
    ELSE cur

\* The body shared by bt_left (side 1) and bt_right (side 2).
bt_add(side, parent, value) ==
    LET new == BtNode(obt_ids + 1, value)
    IN IF bt = None
       THEN /\ bt' = new
            /\ obt_ids' = obt_ids + 1
       ELSE IF parent # NoParent
       THEN LET node == find_node_by_id(bt, <<>>, parent)
            IN IF node # None /\ At(bt, node[1] \o <<side>>) = None
               THEN /\ bt' = Graft(bt, node[1] \o <<side>>, new)
                    /\ obt_ids' = obt_ids + 1
               ELSE UNCHANGED <<bt, obt_ids>>
       ELSE /\ bt' = Graft(bt, LastOnSide(bt, <<>>, side) \o <<side>>, new)
            /\ obt_ids' = obt_ids + 1

\* POST /bt/add_left of the outer application
bt_left(parent, value) ==
    /\ obt_call' = [op |-> "bt_left", parent |-> parent, value |-> value]
    /\ obt_prev' = bt
    /\ bt_add(1, parent, value)

\* POST /bt/add_right of the outer application
bt_right(parent, value) ==
    /\ obt_call' = [op |-> "bt_right", parent |-> parent, value |-> value]
    /\ obt_prev' = bt
    /\ bt_add(2, parent, value)

\* POST /bt/reset of the outer application
outer_bt_reset ==
    /\ obt_call' = [op |-> "bt_reset", parent |-> NoParent, value |-> ""]
    /\ obt_prev' = bt
    /\ bt' = None
    /\ UNCHANGED obt_ids

(***************************************************************************)
(* /tree/insert, statement by statement, for concurrent requests           *)
(***************************************************************************)
\* The server handles each request in a thread of its own and the route
\* takes no lock: two requests execute tree_insert_route with their
\* statements interleaved. A node reference is the node's path; no node of
\* the generic tree is ever moved, so a path keeps denoting the same node.
Threads == {1, 2}
Other(t) == 3 - t

\* JSON values of the concurrent requests.
RaceInputs == { JStr(<<"X">>), JStr(<<"Y">>), JStr(<<" ">>) }

\* Lines 672-676: the value is read and checked, new_node is created.
t_begin(t, v) ==
    LET val == Strip(v.s)
    IN /\ pc[t] = "idle"
       /\ r_new' = [r_new EXCEPT ![t] = val]
       /\ pc' = [pc EXCEPT ![t] = IF val = <<>> THEN "done" ELSE "read_root"]
       /\ r_base' = IF pc[Other(t)] = "idle" THEN Size(tree_root) ELSE r_base
       /\ overlap' = (overlap \/ pc[Other(t)] \notin {"idle", "done"})
       /\ UNCHANGED <<tree_root, r_q, r_node, r_slot>>

\* Line 677 (if not tree_root) and line 681 (q = [tree_root]).
t_read_root(t) ==
    /\ pc[t] = "read_root"
    /\ IF tree_root = None
       THEN /\ pc' = [pc EXCEPT ![t] = "set_root"]
            /\ UNCHANGED r_q
       ELSE /\ pc' = [pc EXCEPT ![t] = "pop"]
            /\ r_q' = [r_q EXCEPT ![t] = << <<>> >>]
    /\ UNCHANGED <<tree_root, r_new, r_node, r_slot, r_base, overlap>>

\* Line 678: tree_root = new_node.
t_set_root(t) ==
    /\ pc[t] = "set_root"
    /\ tree_root' = TreeNode(r_new[t])
    /\ r_slot' = [r_slot EXCEPT ![t] = << <<>> >>]
    /\ pc' = [pc EXCEPT ![t] = "done"]
    /\ UNCHANGED <<r_new, r_q, r_node, r_base, overlap>>

\* Lines 682-683: while q: node = q.pop(0).
t_pop(t) ==
    /\ pc[t] = "pop"
    /\ IF r_q[t] = <<>>
       THEN /\ pc' = [pc EXCEPT ![t] = "done"]
            /\ UNCHANGED <<r_q, r_node>>
       ELSE /\ r_node' = [r_node EXCEPT ![t] = Head(r_q[t])]
            /\ r_q' = [r_q EXCEPT ![t] = Tail(r_q[t])]
            /\ pc' = [pc EXCEPT ![t] = "test_left"]
    /\ UNCHANGED <<tree_root, r_new, r_slot, r_base, overlap>>

\* Variant of the test of line 684: the left slot is taken to be empty
\* without looking at it.
t_test_left_skipped(t) ==
    /\ pc[t] = "test_left"
    /\ pc' = [pc EXCEPT ![t] = "set_left"]
    /\ UNCHANGED <<tree_root, r_new, r_q, r_node, r_slot, r_base, overlap>>

\* Line 684: if not node.left.
t_test_left(t) ==
    /\ pc[t] = "test_left"
    /\ pc' = [pc EXCEPT ![t] = IF LeftOf(At(tree_root, r_node[t])) = None
                                THEN "set_left" ELSE "test_right"]
    /\ UNCHANGED <<tree_root, r_new, r_q, r_node, r_slot, r_base, overlap>>

\* Lines 685-686: node.left = new_node; break.
t_set_left(t) ==
    /\ pc[t] = "set_left"
    /\ tree_root' = Graft(tree_root, r_node[t] \o <<1>>, TreeNode(r_new[t]))
    /\ r_slot' = [r_slot EXCEPT ![t] = <<r_node[t] \o <<1>>>>]
    /\ pc' = [pc EXCEPT ![t] = "done"]
    /\ UNCHANGED <<r_new, r_q, r_node, r_base, overlap>>

\* Line 687: elif not node.right.
t_test_right(t) ==
    /\ pc[t] = "test_right"
    /\ pc' = [pc EXCEPT ![t] = IF RightOf(At(tree_root, r_node[t])) = None
                                THEN "set_right" ELSE "append"]
    /\ UNCHANGED <<tree_root, r_new, r_q, r_node, r_slot, r_base, overlap>>

\* Lines 688-689: node.right = new_node; break.
t_set_right(t) ==
    /\ pc[t] = "set_right"
    /\ tree_root' = Graft(tree_root, r_node[t] \o <<2>>, TreeNode(r_new[t]))
    /\ r_slot' = [r_slot EXCEPT ![t] = <<r_node[t] \o <<2>>>>]
    /\ pc' = [pc EXCEPT ![t] = "done"]
    /\ UNCHANGED <<r_new, r_q, r_node, r_base, overlap>>

\* Lines 690-691: q.append(node.left); q.append(node.right).
t_append(t) ==
    /\ pc[t] = "append"
    /\ r_q' = [r_q EXCEPT
                 ![t] = r_q[t] \o <<r_node[t] \o <<1>>, r_node[t] \o <<2>>>>]
    /\ pc' = [pc EXCEPT ![t] = "pop"]
    /\ UNCHANGED <<tree_root, r_new, r_node, r_slot, r_base, overlap>>

(***************************************************************************)
(* The posts table, the feed and the delete route                          *)
(***************************************************************************)
\* Titles of posts and ids named in /delete requests (0 and ids never
\* given to a row included).
PostTitles == { <<"a">>, <<"A", "b">> }
PostIds == 0..(MaxPosts + 1)

\* A Stack or QueueLinked object local to a function: its nodes and its
\* fields.
NewStack == [nodes |-> <<>>, head |-> NoRef, length |-> 0]
NewQueueLinked == [nodes |-> <<>>, head |-> NoRef, tail |-> NoRef, length |-> 0]

\* Stack.push(data) on a local Stack.
Stack_push(st, data) ==
    [nodes |-> Append(st.nodes, [Node(data) EXCEPT !.left = st.head]),
     head |-> Len(st.nodes) + 1,
     length |-> st.length + 1]

\* Stack.to_list() on a local Stack.
Stack_to_list(st) == WalkLeft(st.nodes, st.head, Len(st.nodes))

\* Variant of QueueLinked.enqueue on a local queue: the length counter is
\* not advanced.
QueueLinked_enqueue_uncounted(q, data) ==
    LET n == Len(q.nodes) + 1
    IN IF q.head = NoRef
       THEN [nodes |-> Append(q.nodes, Node(data)),
             head |-> n, tail |-> n, length |-> q.length]
       ELSE [nodes |-> Append([q.nodes EXCEPT ![q.tail].right = n], Node(data)),
             head |-> q.head, tail |-> n, length |-> q.length]

\* QueueLinked.enqueue(data) on a local queue.
QueueLinked_enqueue(q, data) ==
    LET n == Len(q.nodes) + 1
    IN IF q.head = NoRef
       THEN [nodes |-> Append(q.nodes, Node(data)),
             head |-> n, tail |-> n, length |-> q.length + 1]
       ELSE [nodes |-> Append([q.nodes EXCEPT ![q.tail].right = n], Node(data)),
             head |-> q.head, tail |-> n, length |-> q.length + 1]

\* QueueLinked.dequeue() on a local queue: what it returns, as <<x>>, None
\* for a returned None and "error" for a raised AttributeError.
QueueLinked_dequeue(q) ==
    IF q.length = 0 THEN None
    ELSE IF q.head = NoRef THEN "error"
    ELSE <<q.nodes[q.head].node>>

\* SELECT * FROM posts ORDER BY id DESC
OrderByIdDesc(rows) ==
    [i \in 1..Cardinality(rows) |->
        CHOOSE r \in rows : Cardinality({o \in rows : o.id > r.id}) = i - 1]

\* The for loop of get_feed_stack: every row pushed in turn.
RECURSIVE PushRows(_, _)
PushRows(st, rows) ==
    IF rows = <<>> THEN st
    ELSE PushRows(Stack_push(st, Head(rows)), Tail(rows))

\* get_feed_stack()
get_feed_stack == Stack_to_list(PushRows(NewStack, OrderByIdDesc(posts)))

\* BST.insert(data) on a local BST whose root is root: the new root.
BST_insert_into(root, data) ==
    IF root = None THEN <<data, None, None>> ELSE insert_loop(root, <<>>, data)

\* The for loop of perform_bst_search: every title inserted in turn.
RECURSIVE InsertTitles(_, _)
InsertTitles(root, rows) ==
    IF rows = <<>> THEN root
    ELSE InsertTitles(BST_insert_into(root, Head(rows).title), Tail(rows))

\* POST /create_post
create_post(title) ==
    /\ posts' = posts \cup {[id |-> next_id, title |-> title]}
    /\ next_id' = next_id + 1
    /\ db_call' = [op |-> "create_post", arg |-> next_id]
    /\ UNCHANGED <<db_resp, feed, search_ins, search_out>>

\* GET / : the home page reads the feed.
home ==
    /\ feed' = get_feed_stack
    /\ db_call' = [op |-> "get_feed_stack", arg |-> 0]
    /\ UNCHANGED <<posts, next_id, db_resp, search_ins, search_out>>

\* perform_bst_search(keyword)
perform_bst_search(keyword) ==
    LET rows == get_feed_stack
        root == InsertTitles(None, rows)
    IN /\ search_ins' = rows
       /\ search_out' = IF keyword = <<>> THEN <<>>
                        ELSE walk(root, Lower(keyword))
       /\ db_call' = [op |-> "perform_bst_search", arg |-> 0]
       /\ UNCHANGED <<posts, next_id, db_resp, feed>>

\* POST /delete/<id>
delete(id) ==
    LET q == QueueLinked_enqueue(NewQueueLinked, id)
        post_id == QueueLinked_dequeue(q)
    IN /\ db_call' = [op |-> "delete", arg |-> id]
       /\ UNCHANGED <<next_id, feed, search_ins, search_out>>
       /\ IF post_id = None
          THEN /\ db_resp' = "no-op"
               /\ UNCHANGED posts
          ELSE /\ db_resp' = "deleted"
               /\ posts' = {r \in posts : r.id # post_id[1]}

(***************************************************************************)
(* Specifications                                                          *)
(***************************************************************************)
BstStart ==
    /\ bst_root = None
    /\ bst_call = [op |-> "start", arg |-> JMissing]
    /\ bst_resp = Response("none", "", FALSE)
    /\ bst_prev = None
    /\ copies = [k \in AllKeys |-> 0]
    /\ ex_pos = 1

StackStart ==
    /\ s_nodes = <<>>
    /\ s_head = NoRef
    /\ s_length = 0
    /\ s_out = <<>>
    /\ s_pushed = <<>>

LinkedQueueStart ==
    /\ q_nodes = <<>>
    /\ q_head = NoRef
    /\ q_tail = NoRef
    /\ q_length = 0
    /\ q_ret = ReturnNone
    /\ q_prev = [head |-> NoRef, tail |-> NoRef, length |-> 0]
    /\ q_enq = <<>>
    /\ q_deq = <<>>

ListQueueStart ==
    /\ queue = <<>>
    /\ vq_call = JMissing
    /\ vq_prev = <<>>
    /\ vq_resp = "none"
    /\ vq_enq = <<>>
    /\ vq_deq = <<>>

TreeStart ==
    /\ tree_root = None
    /\ tree_call = JMissing
    /\ tree_resp = "none"
    /\ tree_prev = None
    /\ tree_vals = <<>>

OuterBstStart ==
    /\ bst = None
    /\ obst_call = JMissing
    /\ obst_resp = "none"
    /\ obst_prev = None

FeedStart ==
    /\ feed_root = None
    /\ feed_call = [op |-> "new", arg |-> <<>>]
    /\ feed_out = <<>>
    /\ feed_prev = None

InnerStackStart ==
    /\ stack = <<>>
    /\ st_call = [op |-> "start", arg |-> JMissing]
    /\ st_resp = "none"
    /\ st_prev = <<>>
    /\ st_hist = <<>>

OuterStackStart ==
    /\ o_stack = <<>>
    /\ os_call = [op |-> "start", arg |-> JMissing]
    /\ os_resp = "none"
    /\ os_prev = <<>>
    /\ os_hist = <<>>

PostsStart ==
    /\ posts = {}
    /\ next_id = 1
    /\ db_call = [op |-> "start", arg |-> 0]
    /\ db_resp = "none"
    /\ feed = <<>>
    /\ search_ins = <<>>
    /\ search_out = <<>>

RaceStart ==
    /\ pc = [t \in Threads |-> "idle"]
    /\ r_new = [t \in Threads |-> <<>>]
    /\ r_q = [t \in Threads |-> <<>>]
    /\ r_node = [t \in Threads |-> <<>>]
    /\ r_slot = [t \in Threads |-> None]
    /\ r_base = 0
    /\ overlap = FALSE

InnerBtStart ==
    /\ bt_root = None
    /\ bt_call = [op |-> "start", arg |-> JMissing]
    /\ bt_resp = "none"
    /\ bt_prev = None

OuterBtStart ==
    /\ bt = None
    /\ obt_call = [op |-> "start", parent |-> NoParent, value |-> ""]
    /\ obt_prev = None
    /\ obt_ids = 0

Init ==
    /\ BstStart
    /\ StackStart
    /\ LinkedQueueStart
    /\ ListQueueStart
    /\ lin_call = "start"
    /\ TreeStart
    /\ OuterBstStart
    /\ FeedStart
    /\ InnerStackStart
    /\ OuterStackStart
    /\ PostsStart
    /\ RaceStart
    /\ InnerBtStart
    /\ OuterBtStart

linear_vars == <<stack_vars, linked_queue_vars, list_queue_vars, lin_call>>

BstInsert ==
    \E v \in RawInputs :
        /\ Size(bst_root) < MaxNodes
        /\ bst_insert_route(v)
        /\ UNCHANGED <<ex_pos, linear_vars, rest_vars>>

BstSearch ==
    \E v \in RawInputs :
        bst_search_route(v) /\ UNCHANGED <<ex_pos, linear_vars, rest_vars>>

BstDelete ==
    \E v \in RawInputs :
        bst_delete_route(v) /\ UNCHANGED <<ex_pos, linear_vars, rest_vars>>

BstMax == bst_max_route /\ UNCHANGED <<ex_pos, linear_vars, rest_vars>>

BstHeight == bst_height_route /\ UNCHANGED <<ex_pos, linear_vars, rest_vars>>

Next == BstInsert \/ BstSearch \/ BstDelete \/ BstMax \/ BstHeight

Spec == Init /\ [][Next]_vars

\* The worked example: the seven inserts in order, then any deletes and
\* searches over the example's keys.
ExampleInsert ==
    /\ ex_pos <= Len(ExampleScript)
    /\ bst_insert_route(ExampleScript[ex_pos])
    /\ ex_pos' = ex_pos + 1
    /\ UNCHANGED <<linear_vars, rest_vars>>

ExampleDelete ==
    /\ ex_pos > Len(ExampleScript)
    /\ \E v \in ExampleInputs : bst_delete_route(v)
    /\ UNCHANGED <<ex_pos, linear_vars, rest_vars>>

ExampleSearch ==
    /\ ex_pos > Len(ExampleScript)
    /\ \E v \in ExampleInputs : bst_search_route(v)
    /\ UNCHANGED <<ex_pos, linear_vars, rest_vars>>

ExampleNext ==
    ExampleInsert \/ ExampleDelete \/ ExampleSearch \/ BstMax \/ BstHeight

SpecExample == Init /\ [][ExampleNext]_vars

\* The linked structures: a Stack and a QueueLinked under any calls.
StackPush ==
    /\ Len(s_pushed) < MaxPush
    /\ \E d \in Values : push(d)
    /\ UNCHANGED <<bst_vars, linked_queue_vars, list_queue_vars, rest_vars>>

StackToList ==
    /\ to_list
    /\ UNCHANGED <<bst_vars, linked_queue_vars, list_queue_vars, rest_vars>>

LinkedEnqueue ==
    /\ Len(q_enq) < MaxEnqueue
    /\ \E d \in Values : enqueue(d)
    /\ UNCHANGED <<bst_vars, stack_vars, list_queue_vars, rest_vars>>

LinkedDequeue ==
    /\ dequeue
    /\ UNCHANGED <<bst_vars, stack_vars, list_queue_vars, rest_vars>>

LinkedNext == StackPush \/ StackToList \/ LinkedEnqueue \/ LinkedDequeue

SpecLinked == Init /\ [][LinkedNext]_vars

\* The two queues: the QueueLinked and the visualizer's list.
ListEnqueue ==
    /\ Len(vq_enq) < MaxAppend
    /\ \E v \in QueueInputs : queue_enqueue(v)
    /\ UNCHANGED <<bst_vars, stack_vars, linked_queue_vars, rest_vars>>

ListDequeue ==
    /\ queue_dequeue
    /\ UNCHANGED <<bst_vars, stack_vars, linked_queue_vars, rest_vars>>

QueuesNext == LinkedEnqueue \/ LinkedDequeue \/ ListEnqueue \/ ListDequeue

SpecQueues == Init /\ [][QueuesNext]_vars

\* The generic tree under any /tree/insert requests.
TreeInsert ==
    /\ Size(tree_root) < MaxTreeNodes
    /\ \E v \in TreeInputs : tree_insert_route(v)
    /\ UNCHANGED <<later_vars, bst_vars, linear_vars, outer_bst_vars, feed_vars,
                   list_stack_vars>>

TreeNext == TreeInsert

SpecTree == Init /\ [][TreeNext]_vars

\* The outer API's BST and a BST object.
OuterBstInsert ==
    /\ Size(bst) < MaxOuterNodes
    /\ \E v \in RawInputs : outer_bst_insert(v)
    /\ UNCHANGED <<later_vars, bst_vars, linear_vars, tree_vars, feed_vars,
                   list_stack_vars>>

OuterBstReset ==
    /\ bst_reset
    /\ UNCHANGED <<later_vars, bst_vars, linear_vars, tree_vars, feed_vars,
                   list_stack_vars>>

FeedInsert ==
    /\ Size(feed_root) < MaxFeedNodes
    /\ \E t \in Titles : BST_insert(t)
    /\ UNCHANGED <<later_vars, bst_vars, linear_vars, tree_vars, outer_bst_vars,
                   list_stack_vars>>

FeedSearch ==
    /\ \E w \in Words : dfs_search(w)
    /\ UNCHANGED <<later_vars, bst_vars, linear_vars, tree_vars, outer_bst_vars,
                   list_stack_vars>>

FeedNext == FeedInsert \/ FeedSearch

SpecFeed == Init /\ [][FeedNext]_vars

\* The two list-backed stacks under any push and pop requests.
InnerStackPush ==
    /\ Len(st_hist) < MaxStackOps
    /\ \E v \in StackInputs : stack_push(v)
    /\ UNCHANGED <<later_vars, bst_vars, linear_vars, tree_vars, outer_bst_vars,
                   feed_vars, outer_stack_vars>>

InnerStackPop ==
    /\ Len(st_hist) < MaxStackOps
    /\ stack_pop
    /\ UNCHANGED <<later_vars, bst_vars, linear_vars, tree_vars, outer_bst_vars,
                   feed_vars, outer_stack_vars>>

OuterStackPush ==
    /\ Len(os_hist) < MaxStackOps
    /\ \E v \in OuterStackInputs : s_push(v)
    /\ UNCHANGED <<later_vars, bst_vars, linear_vars, tree_vars, outer_bst_vars,
                   feed_vars, inner_stack_vars>>

OuterStackPop ==
    /\ Len(os_hist) < MaxStackOps
    /\ s_pop
    /\ UNCHANGED <<later_vars, bst_vars, linear_vars, tree_vars, outer_bst_vars,
                   feed_vars, inner_stack_vars>>

\* The posts table under any requests.
others_vars ==
    <<bst_vars, linear_vars, tree_vars, outer_bst_vars, feed_vars,
      list_stack_vars>>

CreatePost ==
    /\ next_id <= MaxPosts
    /\ \E t \in PostTitles : create_post(t)
    /\ UNCHANGED <<others_vars, race_vars, inner_bt_vars, outer_bt_vars>>

Home ==
    home /\ UNCHANGED <<others_vars, race_vars, inner_bt_vars, outer_bt_vars>>

Search ==
    /\ \E w \in Words : perform_bst_search(w)
    /\ UNCHANGED <<others_vars, race_vars, inner_bt_vars, outer_bt_vars>>

Delete ==
    /\ \E id \in PostIds : delete(id)
    /\ UNCHANGED <<others_vars, race_vars, inner_bt_vars, outer_bt_vars>>

\* The two manual binary trees, one at a time.
InnerBtAddLeft ==
    /\ OuterBtStart
    /\ \E v \in BtInputs : bt_add_left(v)
    /\ UNCHANGED <<others_vars, posts_vars, race_vars, outer_bt_vars>>

InnerBtAddRight ==
    /\ OuterBtStart
    /\ \E v \in BtInputs : bt_add_right(v)
    /\ UNCHANGED <<others_vars, posts_vars, race_vars, outer_bt_vars>>

InnerBtReset ==
    /\ OuterBtStart
    /\ bt_reset
    /\ UNCHANGED <<others_vars, posts_vars, race_vars, outer_bt_vars>>

OuterBtLeft ==
    /\ InnerBtStart
    /\ obt_ids < MaxBtIds
    /\ \E parent \in Parents : \E value \in Values : bt_left(parent, value)
    /\ UNCHANGED <<others_vars, posts_vars, race_vars, inner_bt_vars>>

OuterBtRight ==
    /\ InnerBtStart
    /\ obt_ids < MaxBtIds
    /\ \E parent \in Parents : \E value \in Values : bt_right(parent, value)
    /\ UNCHANGED <<others_vars, posts_vars, race_vars, inner_bt_vars>>

OuterBtReset ==
    /\ InnerBtStart
    /\ outer_bt_reset
    /\ UNCHANGED <<others_vars, posts_vars, race_vars, inner_bt_vars>>

ManualNext ==
    \/ InnerBtAddLeft
    \/ InnerBtAddRight
    \/ InnerBtReset
    \/ OuterBtLeft
    \/ OuterBtRight
    \/ OuterBtReset

SpecManual == Init /\ [][ManualNext]_vars

PostsNext == CreatePost \/ Home \/ Search \/ Delete

SpecPosts == Init /\ [][PostsNext]_vars

\* Two concurrent /tree/insert requests on a tree that earlier requests,
\* handled one at a time, have built.
race_frame ==
    <<bst_vars, linear_vars, outer_bst_vars, feed_vars, list_stack_vars,
      posts_vars, inner_bt_vars, outer_bt_vars, tree_call, tree_resp, tree_prev, tree_vals>>

RaceBuild ==
    /\ \A t \in Threads : pc[t] = "idle"
    /\ Size(tree_root) < MaxRaceBase
    /\ TreeInsert

ThreadBegin ==
    (\E t \in Threads : \E v \in RaceInputs : t_begin(t, v))
    /\ UNCHANGED race_frame

ThreadReadRoot == (\E t \in Threads : t_read_root(t)) /\ UNCHANGED race_frame

ThreadSetRoot == (\E t \in Threads : t_set_root(t)) /\ UNCHANGED race_frame

ThreadPop == (\E t \in Threads : t_pop(t)) /\ UNCHANGED race_frame

ThreadTestLeft == (\E t \in Threads : t_test_left(t)) /\ UNCHANGED race_frame

ThreadSetLeft == (\E t \in Threads : t_set_left(t)) /\ UNCHANGED race_frame

ThreadTestRight ==
    (\E t \in Threads : t_test_right(t)) /\ UNCHANGED race_frame

ThreadSetRight == (\E t \in Threads : t_set_right(t)) /\ UNCHANGED race_frame

ThreadAppend == (\E t \in Threads : t_append(t)) /\ UNCHANGED race_frame

RaceNext ==
    \/ RaceBuild
    \/ ThreadBegin
    \/ ThreadReadRoot
    \/ ThreadSetRoot
    \/ ThreadPop
    \/ ThreadTestLeft
    \/ ThreadSetLeft
    \/ ThreadTestRight
    \/ ThreadSetRight
    \/ ThreadAppend

SpecRace == Init /\ [][RaceNext]_vars

\* The structures share no state: every behaviour of the program projects,
\* structure by structure, onto a behaviour that uses that structure alone.
\* The specifications below explore those behaviours, one structure at a
\* time: a structure takes a step only while all the others are unused.
Used ==
    { g \in 1..9 :
        \/ g = 1 /\ ~BstStart
        \/ g = 2 /\ (~StackStart \/ lin_call \in {"push", "to_list"})
        \/ g = 3 /\ (~LinkedQueueStart \/ lin_call \in {"enqueue", "dequeue"})
        \/ g = 4 /\ (~ListQueueStart
                        \/ lin_call \in {"queue_enqueue", "queue_dequeue"})
        \/ g = 5 /\ ~TreeStart
        \/ g = 6 /\ ~OuterBstStart
        \/ g = 7 /\ ~FeedStart
        \/ g = 8 /\ ~InnerStackStart
        \/ g = 9 /\ ~OuterStackStart }

Alone(g) == Used \subseteq {g}

\* Every operation of every structure.
CoreNext ==
    \/ Alone(1) /\ BstInsert
    \/ Alone(1) /\ BstSearch
    \/ Alone(1) /\ BstDelete
    \/ Alone(1) /\ BstMax
    \/ Alone(1) /\ BstHeight
    \/ Alone(2) /\ StackPush
    \/ Alone(2) /\ StackToList
    \/ Alone(3) /\ LinkedEnqueue
    \/ Alone(3) /\ LinkedDequeue
    \/ Alone(4) /\ ListEnqueue
    \/ Alone(4) /\ ListDequeue
    \/ Alone(5) /\ TreeInsert
    \/ Alone(6) /\ OuterBstInsert
    \/ Alone(6) /\ OuterBstReset
    \/ Alone(7) /\ FeedInsert
    \/ Alone(7) /\ FeedSearch
    \/ Alone(8) /\ InnerStackPush
    \/ Alone(8) /\ InnerStackPop
    \/ Alone(9) /\ OuterStackPush
    \/ Alone(9) /\ OuterStackPop

SpecCore == Init /\ [][CoreNext]_vars

\* Inserts alone, into each of the three BSTs.
InsertsNext ==
    \/ Alone(1) /\ BstInsert
    \/ Alone(6) /\ OuterBstInsert
    \/ Alone(7) /\ FeedInsert

SpecInserts == Init /\ [][InsertsNext]_vars

\* The two list-backed stacks, one at a time.
StacksNext ==
    \/ Alone(8) /\ InnerStackPush
    \/ Alone(8) /\ InnerStackPop
    \/ Alone(9) /\ OuterStackPush
    \/ Alone(9) /\ OuterStackPop

SpecStacks == Init /\ [][StacksNext]_vars

(***************************************************************************)
(* Positions in a tree, used to state properties                           *)
(***************************************************************************)
\* The path (1 = left, 2 = right) that a descent by comparison with v takes
\* from the root: it stops at the first node holding v, or where the tree
\* ends.
RECURSIVE PathTo(_, _)
PathTo(node, v) ==
    IF node = None THEN <<>>
    ELSE IF v < ValOf(node) THEN <<1>> \o PathTo(LeftOf(node), v)
    ELSE IF v > ValOf(node) THEN <<2>> \o PathTo(RightOf(node), v)
    ELSE <<>>

\* The ordering invariant of the data model: left keys strictly smaller,
\* right keys greater or equal, at every node.
RECURSIVE StrictBST(_)
StrictBST(node) ==
    \/ node = None
    \/ /\ \A x \in KeysOf(LeftOf(node)) : x < ValOf(node)
       /\ \A x \in KeysOf(RightOf(node)) : x >= ValOf(node)
       /\ StrictBST(LeftOf(node))
       /\ StrictBST(RightOf(node))

\* The last request was a /bst/delete whose value parsed as the integer k.
DeletedKey(k) ==
    /\ bst_call.op = "bst_delete_route"
    /\ ParseInt(bst_call.arg).ok
    /\ ParseInt(bst_call.arg).val = k

(***************************************************************************)
(* C1: after every bst_delete the tree satisfies the ordering invariant:   *)
(* at every node the left subtree's keys are strictly less than the node's *)
(* key and the right subtree's keys are greater than or equal to it.       *)
(* Violated: deleting a two-child node whose left subtree holds its        *)
(* maximum twice leaves one copy of that key in the left subtree.          *)
(***************************************************************************)
C1_StrictOrderAfterDelete ==
    (\E k \in AllKeys : DeletedKey(k)) => StrictBST(bst_root)

(***************************************************************************)
(* C2: bst_search(root, k) is true exactly when the inserts of k outnumber *)
(* the deletes of k made while k was present; the search route reports     *)
(* the same.                                                               *)
(***************************************************************************)
C2_SearchIffPresent ==
    /\ \A k \in AllKeys : bst_search(bst_root, k) <=> (copies[k] > 0)
    /\ (bst_call.op = "bst_search_route" /\ bst_resp.status = "ok")
          => (bst_resp.found <=> (copies[ParseInt(bst_call.arg).val] > 0))

\* A key inserted twice and deleted once is still found.
C2_Witness ==
    \E k \in AllKeys :
        /\ DeletedKey(k)
        /\ Count(bst_prev, k) = 2
        /\ copies[k] = 1
        /\ bst_search(bst_root, k)

(***************************************************************************)
(* C3: inserting 5,3,8,1,4,7,9 and then deleting 3.                        *)
(***************************************************************************)
ExampleTree ==
    <<5, <<3, TreeNode(1), TreeNode(4)>>, <<8, TreeNode(7), TreeNode(9)>>>>

ExampleDeleted3 == bst_prev = ExampleTree /\ DeletedKey(3)

TwoChildTarget(k) ==
    LET old == At(bst_prev, PathTo(bst_prev, k))
    IN old # None /\ LeftOf(old) # None /\ RightOf(old) # None

C4_TwoChildDelete ==
    \A k \in AllKeys :
        (DeletedKey(k) /\ TwoChildTarget(k)) =>
            LET p == PathTo(bst_prev, k)
                old == At(bst_prev, p)
                new == At(bst_root, p)
                pred == MaxOfSet(KeysOf(LeftOf(old)))
            IN /\ new # None
               /\ ValOf(new) = pred
               /\ RightOf(new) = RightOf(old)
               /\ Size(LeftOf(new)) = Size(LeftOf(old)) - 1
               /\ \A x \in AllKeys :
                     Count(LeftOf(new), x) =
                        Count(LeftOf(old), x) - (IF x = pred THEN 1 ELSE 0)
               /\ bst_root = Graft(bst_prev, p, new)

\* A two-child node below the root was deleted and its left subtree held
\* more than the predecessor.
C4_Witness ==
    \E k \in AllKeys :
        /\ DeletedKey(k)
        /\ TwoChildTarget(k)
        /\ PathTo(bst_prev, k) # <<>>
        /\ Size(LeftOf(At(bst_prev, PathTo(bst_prev, k)))) >= 2

(***************************************************************************)
(* C5: bst_delete(k) on a tree that does not hold k, the empty tree        *)
(* included, completes normally and leaves the tree exactly as it was.     *)
(***************************************************************************)
C5_DeleteAbsentNoOp ==
    \A k \in AllKeys :
        (DeletedKey(k) /\ Count(bst_prev, k) = 0) =>
            /\ bst_root = bst_prev
            /\ bst_resp.status = "ok"

\* An absent key was deleted from a tree holding both smaller and larger
\* keys.
C5_Witness ==
    \E k \in AllKeys :
        /\ DeletedKey(k)
        /\ Count(bst_prev, k) = 0
        /\ \E x, y \in KeysOf(bst_prev) : x < k /\ k < y
        /\ bst_root = bst_prev

\* An absent key was deleted from the empty tree.
C5_WitnessEmpty ==
    \E k \in AllKeys : DeletedKey(k) /\ bst_prev = None /\ bst_root = None

(***************************************************************************)
(* Chains of nodes, used to state properties                               *)
(***************************************************************************)
IsPrefix(a, b) == Len(a) <= Len(b) /\ SubSeq(b, 1, Len(a)) = a

Reverse(seq) == [i \in 1..Len(seq) |-> seq[Len(seq) + 1 - i]]

\* The identities on the chain from cur, following left links (the Stack)
\* or right links (the QueueLinked). fuel stops the walk on a cycle.
RECURSIVE Chain(_, _, _, _)
Chain(nodes, cur, link, fuel) ==
    IF cur = NoRef \/ fuel = 0 THEN <<>>
    ELSE <<cur>> \o Chain(nodes,
                          IF link = "left" THEN nodes[cur].left
                                           ELSE nodes[cur].right,
                          link, fuel - 1)

StackChain == Chain(s_nodes, s_head, "left", Len(s_nodes) + 1)
QueueChain == Chain(q_nodes, q_head, "right", Len(q_nodes) + 1)

\* The values waiting in the QueueLinked, front first.
QueueContents == [i \in 1..Len(QueueChain) |-> q_nodes[QueueChain[i]].node]

\* The queue was emptied and used again: an earlier node was the last one
\* when it was removed, so nothing was ever linked behind it.
DrainedAndRefilled ==
    \E i \in 1..(Len(q_nodes) - 1) : q_nodes[i].right = NoRef

(***************************************************************************)
(* C6: for both queues, the values returned (removed) by non-empty         *)
(* dequeues are, in order, a prefix of the values enqueued, and what is    *)
(* still queued is the rest of them in order.                              *)
(***************************************************************************)
C6_FifoOrder ==
    /\ IsPrefix(q_deq, q_enq)
    /\ q_deq \o QueueContents = q_enq
    /\ IsPrefix(vq_deq, vq_enq)
    /\ vq_deq \o queue = vq_enq

\* The QueueLinked was drained, refilled and dequeued again, and the list
\* queue gave back two different values.
C6_Witness ==
    /\ DrainedAndRefilled
    /\ Len(q_deq) >= 2 /\ q_deq[1] # q_deq[2]
    /\ Len(vq_deq) >= 2 /\ vq_deq[1] # vq_deq[2]
    /\ lin_call = "dequeue"
    /\ q_ret = ReturnValue(q_deq[Len(q_deq)])

(***************************************************************************)
(* C7: dequeue on a QueueLinked of length 0 returns None and leaves head,  *)
(* tail and length as they were; a dequeue on a longer queue returns a     *)
(* value and lowers length by one; enqueue raises it by one; length is     *)
(* never negative.                                                         *)
(***************************************************************************)
C7_DequeueEmpty ==
    /\ q_length >= 0
    /\ (lin_call = "dequeue" /\ q_prev.length = 0) =>
          /\ q_ret = ReturnNone
          /\ q_head = q_prev.head
          /\ q_tail = q_prev.tail
          /\ q_length = 0
    /\ (lin_call = "dequeue" /\ q_prev.length > 0) =>
          /\ q_ret.kind = "value"
          /\ q_length = q_prev.length - 1
    /\ (lin_call = "enqueue") => q_length = q_prev.length + 1

\* dequeue was called on a queue that had been used and drained before.
C7_Witness ==
    /\ lin_call = "dequeue"
    /\ q_prev.length = 0
    /\ q_prev.tail # NoRef
    /\ q_ret = ReturnNone

(***************************************************************************)
(* C8: the relation between head and tail of a QueueLinked.                *)
(***************************************************************************)
\* C8 as stated: whenever tail is non-null, head is non-null.
C8_Original == (q_tail # NoRef) => (q_head # NoRef)

\* C8 amended: whenever head is non-null, tail is non-null and is the last
\* node of the chain from head. (Once the queue has been drained, head is
\* None while tail still refers to the node removed last.)
C8_HeadImpliesTail ==
    (q_head # NoRef) =>
        /\ q_tail # NoRef
        /\ q_nodes[q_tail].right = NoRef
        /\ QueueChain[Len(QueueChain)] = q_tail

\* A queue holding two values after having been drained once.
C8_Witness ==
    /\ q_head # NoRef
    /\ q_tail # q_head
    /\ DrainedAndRefilled

(***************************************************************************)
(* C9: after N pushes onto an empty Stack, to_list() returns the pushed    *)
(* values in reverse push order.                                           *)
(***************************************************************************)
C9_ToListReversesPushes ==
    /\ WalkLeft(s_nodes, s_head, Len(s_nodes)) = Reverse(s_pushed)
    /\ (lin_call = "to_list") => s_out = Reverse(s_pushed)

\* to_list was called after three pushes that were not all the same value.
C9_Witness ==
    /\ lin_call = "to_list"
    /\ Len(s_pushed) >= 3
    /\ s_pushed[1] # s_pushed[3]
    /\ s_out = Reverse(s_pushed)

(***************************************************************************)
(* C10: the length counter equals the number of nodes on the chain from    *)
(* head, for the Stack (left links) and the QueueLinked (right links).     *)
(***************************************************************************)
C10_LengthIsChainLength ==
    /\ s_length = Len(StackChain)
    /\ q_length = Len(QueueChain)

\* Both structures hold nodes and the queue has lost one to a dequeue.
C10_Witness ==
    /\ s_length >= 2
    /\ q_length >= 1
    /\ Len(q_deq) >= 1
    /\ Len(q_nodes) > q_length

(***************************************************************************)
(* C11: after n accepted /tree/insert requests the generic tree is the     *)
(* complete binary tree of the inserted values in level order: the i-th    *)
(* value has the 2i-th as left child and the (2i+1)-th as right child,     *)
(* where those exist. A,B,C,D,E gives A over (B over D, E) and C.          *)
(***************************************************************************)
RECURSIVE CompleteTree(_, _)
CompleteTree(vals, i) ==
    IF i > Len(vals) THEN None
    ELSE <<vals[i], CompleteTree(vals, 2 * i), CompleteTree(vals, 2 * i + 1)>>

ABCDE == << <<"A">>, <<"B">>, <<"C">>, <<"D">>, <<"E">> >>

C11_LevelOrderFill ==
    /\ tree_root = CompleteTree(tree_vals, 1)
    /\ (tree_vals = ABCDE) =>
          tree_root = << <<"A">>,
                         << <<"B">>, TreeNode(<<"D">>), TreeNode(<<"E">>) >>,
                         TreeNode(<<"C">>) >>

C11_Witness ==
    /\ tree_vals = ABCDE
    /\ tree_resp = "ok"
    /\ ValOf(RightOf(LeftOf(tree_root))) = <<"E">>

(***************************************************************************)
(* C12: a BST insert adds exactly one leaf holding the key and changes     *)
(* nothing else; on the way down the key goes left of a node only when it  *)
(* is smaller than the node's key, so an equal key goes right and a key    *)
(* already present ends up in a second node. Inserts of a parsed integer   *)
(* (or of any title) always succeed.                                       *)
(***************************************************************************)
IntLess(a, b) == a < b

\* The paths of length at most n.
Paths(n) == UNION {[1..m -> {1, 2}] : m \in 0..n}

LeafAdded(prev, new, k, Less(_, _)) ==
    /\ \E p \in Paths(Size(prev)) :
          /\ p = <<>> \/ At(prev, SubSeq(p, 1, Len(p) - 1)) # None
          /\ At(prev, p) = None
          /\ new = Graft(prev, p, <<k, None, None>>)
          /\ \A i \in 1..Len(p) :
                (p[i] = 1) <=> Less(k, ValOf(At(prev, SubSeq(p, 1, i - 1))))
    /\ Size(new) = Size(prev) + 1
    /\ Count(new, k) = Count(prev, k) + 1

C12_InsertAddsOneLeaf ==
    /\ (bst_call.op = "bst_insert_route" /\ bst_call.arg.t = "str"
            /\ IntOfStr(Strip(bst_call.arg.s)).ok)
          => /\ bst_resp.status = "ok"
             /\ LeafAdded(bst_prev, bst_root,
                          IntOfStr(Strip(bst_call.arg.s)).val, IntLess)
    /\ (obst_resp # "none" /\ ParseInt(obst_call).ok)
          => /\ obst_resp = "ok"
             /\ LeafAdded(obst_prev, bst, ParseInt(obst_call).val, IntLess)
    /\ (feed_call.op = "insert")
          => LeafAdded(feed_prev, feed_root, feed_call.arg, StrLess)

\* A key already present was inserted into a tree of two or more nodes
\* and is now held by one node more.
C12_Witness ==
    /\ bst_call.op = "bst_insert_route"
    /\ bst_resp.status = "ok"
    /\ Size(bst_prev) >= 2
    /\ Count(bst_prev, IntOfStr(Strip(bst_call.arg.s)).val) >= 1
    /\ Count(bst_root, IntOfStr(Strip(bst_call.arg.s)).val)
          = Count(bst_prev, IntOfStr(Strip(bst_call.arg.s)).val) + 1

(***************************************************************************)
(* C13: after inserts alone, duplicates included, every node of each BST   *)
(* has only strictly smaller keys in its left subtree and only keys        *)
(* greater than or equal to its own in its right subtree.                  *)
(***************************************************************************)
\* The strict ordering for a tree of titles, compared as Python strings.
RECURSIVE StrictTitleBST(_)
StrictTitleBST(node) ==
    \/ node = None
    \/ /\ \A x \in KeysOf(LeftOf(node)) : StrLess(x, ValOf(node))
       /\ \A x \in KeysOf(RightOf(node)) : ~StrLess(x, ValOf(node))
       /\ StrictTitleBST(LeftOf(node))
       /\ StrictTitleBST(RightOf(node))

C13_InsertsKeepStrictOrder ==
    /\ StrictBST(bst_root)
    /\ StrictBST(bst)
    /\ StrictTitleBST(feed_root)

\* A BST object grown to its bound by inserts, one title held twice, with
\* nodes on both sides of the root.
C13_Witness ==
    /\ Size(feed_root) = MaxFeedNodes
    /\ \E t \in Titles : Count(feed_root, t) >= 2
    /\ LeftOf(feed_root) # None
    /\ RightOf(feed_root) # None

(***************************************************************************)
(* C14: bst_find_max returns the key of the node at the end of the chain   *)
(* of right children that starts at the root; for every tree reachable by  *)
(* inserts and deletes that key is the maximum of the keys stored, and for *)
(* the empty tree the result is None. GET /bst/max reports the same.       *)
(***************************************************************************)
\* The path of right turns from the root to the last node that has no
\* right child.
RightSpine(node) ==
    CHOOSE p \in {[i \in 1..m |-> 2] : m \in 0..Size(node)} :
        At(node, p) # None /\ RightOf(At(node, p)) = None

C14_FindMaxIsMaximum ==
    /\ bst_find_max(None) = None
    /\ bst_root # None
          => /\ bst_find_max(bst_root) = ValOf(At(bst_root, RightSpine(bst_root)))
             /\ bst_find_max(bst_root) = MaxOfSet(KeysOf(bst_root))
    /\ bst_call.op = "bst_max_route"
          => /\ bst_resp.status = "ok"
             /\ bst_resp.value = IF bst_root = None THEN None
                                 ELSE <<MaxOfSet(KeysOf(bst_root))>>

\* GET /bst/max answered for a tree that only deletes can produce, whose
\* maximum lies two or more steps to the right of the root.
C14_Witness ==
    /\ bst_call.op = "bst_max_route"
    /\ ~StrictBST(bst_root)
    /\ Len(RightSpine(bst_root)) >= 2
    /\ bst_resp.value = <<MaxOfSet(KeysOf(bst_root))>>

(***************************************************************************)
(* C15: bst_height is 0 for the empty tree and, for a node, one more than  *)
(* the larger of its subtrees' heights, which is the number of nodes on    *)
(* the longest path from the root down; it is 1 for a single node and 3    *)
(* for the tree built by inserting 5, 3, 8, 1. GET /bst/height reports it. *)
(***************************************************************************)
\* The number of nodes on the longest downward path from the root.
Depth(node) ==
    IF node = None THEN 0
    ELSE LET lens == {Len(p) + 1 : p \in {r \in Paths(Size(node) - 1) :
                                              At(node, r) # None}}
         IN CHOOSE m \in lens : \A x \in lens : x <= m

\* The tree holds exactly the first four keys of the worked example.
Inserted5381 == ex_pos = 5

C15_Height ==
    /\ bst_height(None) = 0
    /\ bst_height(bst_root) = Depth(bst_root)
    /\ bst_root # None
          => bst_height(bst_root)
                = 1 + MaxOfSet({bst_height(LeftOf(bst_root)),
                                bst_height(RightOf(bst_root))})
    /\ Size(bst_root) = 1 => bst_height(bst_root) = 1
    /\ Inserted5381 => bst_height(bst_root) = 3
    /\ bst_call.op = "bst_height_route"
          => bst_resp.status = "ok" /\ bst_resp.value = <<Depth(bst_root)>>

\* GET /bst/height answered 3 right after the inserts of 5, 3, 8, 1.
C15_Witness ==
    /\ Inserted5381
    /\ bst_root = <<5, <<3, TreeNode(1), None>>, TreeNode(8)>>
    /\ bst_call.op = "bst_height_route"
    /\ bst_resp.value = <<3>>

(***************************************************************************)
(* C16: for a non-empty query BST.dfs_search returns the titles of exactly *)
(* the nodes whose title contains the query, letter case ignored, one      *)
(* entry per such node, in pre-order (a node before its subtrees, the left *)
(* subtree before the right one) and not in sorted order; for an empty     *)
(* query it returns the empty list.                                        *)
(***************************************************************************)
\* Two characters that are equal up to letter case.
CaseEq(c, e) == c = e \/ {c, e} \in {{"A", "a"}, {"B", "b"}}

\* w occurs in text, letter case ignored, at some offset.
Matches(text, w) ==
    \E i \in 0..(Len(text) - Len(w)) :
        \A j \in 1..Len(w) : CaseEq(text[i + j], w[j])

\* Pre-order on positions: an ancestor comes first, and of two positions in
\* different subtrees of a node the one in the left subtree comes first.
PreBefore(p, q) ==
    /\ p # q
    /\ \/ IsPrefix(p, q)
       \/ \E i \in 1..Len(p) :
             /\ i <= Len(q)
             /\ SubSeq(p, 1, i - 1) = SubSeq(q, 1, i - 1)
             /\ p[i] = 1
             /\ q[i] = 2

\* The titles of the matching nodes of the tree, listed by position.
MatchesInPreOrder(root, w) ==
    LET hits == {p \in Paths(Size(root) - 1) :
                     At(root, p) # None /\ Matches(ValOf(At(root, p)), w)}
        rank(p) == 1 + Cardinality({q \in hits : PreBefore(q, p)})
    IN [i \in 1..Cardinality(hits) |->
            ValOf(At(root, CHOOSE p \in hits : rank(p) = i))]

C16_DfsSearchPreOrder ==
    feed_call.op = "dfs_search"
       => feed_out = IF feed_call.arg = <<>> THEN <<>>
                     ELSE MatchesInPreOrder(feed_root, feed_call.arg)

\* A search that returned three titles, one of them twice, in an order
\* that is not the sorted one, while another node did not match.
C16_Witness ==
    /\ feed_call.op = "dfs_search"
    /\ feed_call.arg # <<>>
    /\ Len(feed_out) = 3
    /\ Size(feed_root) = 4
    /\ \E i, j \in 1..3 : i < j /\ feed_out[i] = feed_out[j]
    /\ \E i, j \in 1..3 : i < j /\ StrLess(feed_out[j], feed_out[i])

(***************************************************************************)
(* C17: when the value given to /bst/insert, /bst/search or /bst/delete    *)
(* does not parse as an integer, the route answers with a validation error *)
(* (ok: false) and the BST is the same as before the call.                 *)
(* Violated: /bst/insert calls .strip() on the value before parsing it, so *)
(* a null value raises AttributeError instead of producing an answer.      *)
(***************************************************************************)
\* The last request was a numeric BST operation whose value int() rejects.
NotAnInteger ==
    /\ bst_call.op \in {"bst_insert_route", "bst_search_route",
                        "bst_delete_route"}
    /\ ~ParseInt(bst_call.arg).ok

C17_ParseFailureIsValidationError ==
    NotAnInteger => bst_resp.status = "fail" /\ bst_root = bst_prev

(***************************************************************************)
(* C20: after any pushes and pops on an interactive stack the stored list  *)
(* is what last-in-first-out gives: each pop removes the most recently     *)
(* pushed value that is still there, and a pop on the empty stack changes  *)
(* nothing and is answered like any other pop, without an error.           *)
(***************************************************************************)
\* How many entries of hist at the positions i+1..j are pushes or pops.
Tally(hist, i, j, op) == Cardinality({m \in (i + 1)..j : hist[m][1] = op})

\* The positions of the pushes that no later pop has taken: between such a
\* push and any later moment there are never more pops than pushes.
Remaining(hist) ==
    {i \in 1..Len(hist) :
        /\ hist[i][1] = "push"
        /\ \A j \in (i + 1)..Len(hist) :
              Tally(hist, i, j, "pop") <= Tally(hist, i, j, "push")}

\* The values of the remaining pushes, oldest first.
LifoContents(hist) ==
    LET rem == Remaining(hist)
    IN [k \in 1..Cardinality(rem) |->
           hist[CHOOSE i \in rem : Cardinality({m \in rem : m < i}) = k - 1][2]]

PopTookLast(before, after) ==
    after = IF before = <<>> THEN <<>>
            ELSE SubSeq(before, 1, Len(before) - 1)

C20_StackIsLifo ==
    /\ stack = LifoContents(st_hist)
    /\ o_stack = LifoContents(os_hist)
    /\ st_call.op = "stack_pop"
          => st_resp = "ok" /\ PopTookLast(st_prev, stack)
    /\ os_call.op = "s_pop"
          => os_resp = "ok" /\ PopTookLast(os_prev, o_stack)

\* A pop on the empty stack, then two pushes, then a pop that left the
\* older of the two values.
C20_Witness ==
    /\ Len(st_hist) = 4
    /\ st_hist[1] = Popped
    /\ st_hist[4] = Popped
    /\ Len(st_prev) = 2
    /\ st_prev[1] # st_prev[2]
    /\ stack = <<st_prev[1]>>
    /\ st_resp = "ok"

(***************************************************************************)
(* C18: a request to queue enqueue, stack push, tree insert or BST insert  *)
(* whose value is missing, null, blank or not a string gets an explicit    *)
(* failure answer, never an unhandled fault, and leaves the structure as   *)
(* it was.                                                                 *)
(* Violated: the inner routes call .strip() on null and on numbers, which  *)
(* raises AttributeError, and the outer /stack/push appends whatever value *)
(* it is given.                                                            *)
(***************************************************************************)
\* A value that is missing, null, not a string, or a blank string.
BadValue(v) == v.t \in {"missing", "null", "num"} \/ Strip(v.s) = <<>>

C18_BadValueIsExplicitFailure ==
    /\ (lin_call = "queue_enqueue" /\ BadValue(vq_call))
          => vq_resp = "fail" /\ queue = vq_prev
    /\ (st_call.op = "stack_push" /\ BadValue(st_call.arg))
          => st_resp = "fail" /\ stack = st_prev
    /\ (os_call.op = "s_push" /\ BadValue(os_call.arg))
          => os_resp = "fail" /\ o_stack = os_prev
    /\ (tree_resp # "none" /\ BadValue(tree_call))
          => tree_resp = "fail" /\ tree_root = tree_prev
    /\ (bst_call.op = "bst_insert_route" /\ BadValue(bst_call.arg))
          => bst_resp.status = "fail" /\ bst_root = bst_prev

(***************************************************************************)
(* C19: in every state the operations can reach, empty structures and      *)
(* duplicate keys included, each core operation on a well-formed value     *)
(* runs to its normal answer: the level-order loop of /tree/insert always  *)
(* finds a free slot (the tree grows by one node), the recursion of        *)
(* bst_delete goes no deeper than the tree plus one call and removes at    *)
(* most one node, and no queue or stack operation raises.                  *)
(***************************************************************************)
\* The last BST request carried a value that parses as the integer k.
BstRequest(op, k) ==
    /\ bst_call.op = op
    /\ ParseInt(bst_call.arg).ok
    /\ ParseInt(bst_call.arg).val = k

C19_WitnessTree ==
    /\ tree_resp = "ok"
    /\ Size(tree_prev) >= 3
    /\ Size(tree_root) = Size(tree_prev) + 1

(***************************************************************************)
(* C21: get_feed_stack returns the posts newest first, in descending id    *)
(* order, whatever the table holds, and perform_bst_search inserts the     *)
(* titles into its BST in that order.                                      *)
(* Violated: the rows are read in descending id order and pushed on a      *)
(* Stack, and to_list walks the Stack from the last row pushed, so the     *)
(* list comes out in ascending id order.                                   *)
(***************************************************************************)
DescendingIds(rows) ==
    \A i, j \in 1..Len(rows) : i < j => rows[i].id > rows[j].id

C21_FeedNewestFirst ==
    /\ db_call.op = "get_feed_stack" => DescendingIds(feed)
    /\ db_call.op = "perform_bst_search" => DescendingIds(search_ins)

(***************************************************************************)
(* C27: in the delete route the dequeue that follows the enqueue on the    *)
(* fresh QueueLinked returns the id that was enqueued, so the route never  *)
(* answers "no-op": every request answers "deleted" and leaves no row with *)
(* that id, all other rows untouched.                                      *)
(***************************************************************************)
C27_DeleteAlwaysIssued ==
    /\ \A id \in PostIds :
          QueueLinked_dequeue(QueueLinked_enqueue(NewQueueLinked, id)) = <<id>>
    /\ db_resp # "no-op"
    /\ db_call.op = "delete"
          => /\ db_resp = "deleted"
             /\ \A r \in posts : r.id # db_call.arg

\* A delete request for the id 0, which no row has, while the table holds
\* rows: answered "deleted" all the same.
C27_WitnessAbsent ==
    /\ db_call = [op |-> "delete", arg |-> 0]
    /\ db_resp = "deleted"
    /\ Cardinality(posts) >= 2

\* A delete request answered "deleted" that removed one of several rows:
\* ids given out so far, minus the rows present, include the one deleted.
C27_Witness ==
    /\ db_call.op = "delete"
    /\ db_resp = "deleted"
    /\ db_call.arg \in 1..(next_id - 1)
    /\ Cardinality(posts) = next_id - 2
    /\ Cardinality(posts) >= 1

(***************************************************************************)
(* C22: /tree/insert takes no lock. When two requests run with their       *)
(* statements interleaved, both can find the same child slot empty and     *)
(* both assign it: the later assignment replaces the earlier node and the  *)
(* tree grows by one node instead of two. When the requests do not         *)
(* overlap (each runs from its first statement to its last alone), every   *)
(* accepted request adds its node and the tree grows by two.               *)
(***************************************************************************)
\* Both requests carried a value the route accepts and both have returned.
BothInserted ==
    \A t \in Threads : pc[t] = "done" /\ r_new[t] # <<>>

C22_LostInsertNeedsOverlap ==
    BothInserted
       => /\ Size(tree_root) \in {r_base + 1, r_base + 2}
          /\ ~overlap => Size(tree_root) = r_base + 2
          /\ Size(tree_root) = r_base + 1
                => overlap /\ r_slot[1] = r_slot[2]

\* Both requests assigned the same child slot of the same node, and the
\* tree holds one node more than before instead of two; the node there is
\* the one whose assignment came last.
C22_Witness ==
    /\ BothInserted
    /\ r_slot[1] = r_slot[2]
    /\ r_slot[1] # None
    /\ Len(r_slot[1][1]) >= 1
    /\ Size(tree_root) = r_base + 1
    /\ r_new[1] # r_new[2]
    /\ Count(tree_root, r_new[1]) + Count(tree_root, r_new[2]) = 1

(***************************************************************************)
(* C23: the read-only operations (bst_search, bst_find_max, bst_height,    *)
(* Stack.to_list, BST.dfs_search) leave the structure they read as it was, *)
(* and the same call made again right after, with nothing in between,      *)
(* gives the same result.                                                  *)
(***************************************************************************)
ReadOnlyRoutes == {"bst_search_route", "bst_max_route", "bst_height_route"}

ReadLeavesStructure ==
    /\ bst_call'.op \in ReadOnlyRoutes => bst_root' = bst_root
    /\ lin_call' = "to_list" => UNCHANGED <<s_nodes, s_head, s_length>>
    /\ feed_call'.op = "dfs_search" => feed_root' = feed_root

RepeatedReadAgrees ==
    /\ (bst_call.op \in ReadOnlyRoutes /\ bst_call' = bst_call)
          => bst_resp' = bst_resp
    /\ (lin_call = "to_list" /\ lin_call' = "to_list") => s_out' = s_out
    /\ (feed_call.op = "dfs_search" /\ feed_call' = feed_call)
          => feed_out' = feed_out

C24_DeleteRemovesOneOccurrence ==
    \A k \in AllKeys :
        (DeletedKey(k) /\ Count(bst_prev, k) > 0)
           => /\ \A j \in AllKeys :
                    Count(bst_root, j)
                       = Count(bst_prev, j) - (IF j = k THEN 1 ELSE 0)
              /\ KeysOf(bst_root) \subseteq KeysOf(bst_prev)
              /\ Size(bst_root) = Size(bst_prev) - 1

\* A delete of a key that four or more nodes around it survive: the key
\* was held twice, by a node with two children among them, and is still
\* held once.
C24_Witness ==
    \E k \in AllKeys :
        /\ DeletedKey(k)
        /\ Count(bst_prev, k) = 2
        /\ Count(bst_root, k) = 1
        /\ Size(bst_prev) = MaxNodes
        /\ LeftOf(At(bst_prev, PathTo(bst_prev, k))) # None
        /\ RightOf(At(bst_prev, PathTo(bst_prev, k))) # None

(***************************************************************************)
(* C25: after any inserts and deletes, duplicates included, the keys read  *)
(* in order (left subtree, node, right subtree) never decrease: at every   *)
(* node the keys of the left subtree are less than or equal to its key and *)
(* the keys of the right subtree greater than or equal to it.              *)
(***************************************************************************)
RECURSIVE InOrder(_)
InOrder(node) ==
    IF node = None THEN <<>>
    ELSE InOrder(LeftOf(node)) \o <<ValOf(node)>> \o InOrder(RightOf(node))

RECURSIVE WeakBST(_)
WeakBST(node) ==
    \/ node = None
    \/ /\ \A x \in KeysOf(LeftOf(node)) : x <= ValOf(node)
       /\ \A x \in KeysOf(RightOf(node)) : x >= ValOf(node)
       /\ WeakBST(LeftOf(node))
       /\ WeakBST(RightOf(node))

C25_InOrderNonDecreasing ==
    /\ WeakBST(bst_root)
    /\ \A i \in 1..(Size(bst_root) - 1) :
          InOrder(bst_root)[i] <= InOrder(bst_root)[i + 1]

\* A tree left by a delete in which a left subtree holds the key of its
\* parent: only deletes produce it.
C25_Witness ==
    /\ bst_call.op = "bst_delete_route"
    /\ Size(bst_root) >= 3
    /\ ~StrictBST(bst_root)
    /\ WeakBST(bst_root)

(***************************************************************************)
(* C26: in the manual binary tree add-left and add-right never replace,    *)
(* move or remove a node: the tree after the request is the tree before    *)
(* it, or that tree with one new leaf in a slot that was empty. When the   *)
(* slot asked for is taken, or the parent id names no node, the tree stays *)
(* exactly as it was. Only reset empties the tree. The inner tree never    *)
(* holds more than the root and its two children.                          *)
(***************************************************************************)
\* new is prev, or prev with a single leaf added at an empty slot.
OldNodesKept(prev, new) ==
    \/ new = prev
    \/ \E p \in Paths(Size(prev)) :
          /\ p = <<>> \/ At(prev, SubSeq(p, 1, Len(p) - 1)) # None
          /\ At(prev, p) = None
          /\ Size(At(new, p)) = 1
          /\ new = Graft(prev, p, At(new, p))

\* The positions of the nodes of the outer tree whose id is the given one.
NodesWithId(root, id) ==
    {p \in Paths(Size(root) - 1) :
        At(root, p) # None /\ ValOf(At(root, p)).id = id}

\* The side an outer request adds on: 1 for add_left, 2 for add_right.
SideOf(op) == IF op = "bt_left" THEN 1 ELSE 2

C26_ManualTreeKeepsNodes ==
    /\ bt_call.op \in {"bt_add_left", "bt_add_right"}
          => OldNodesKept(bt_prev, bt_root)
    /\ (bt_call.op = "bt_add_left" /\ At(bt_prev, <<1>>) # None)
          => bt_root = bt_prev
    /\ (bt_call.op = "bt_add_right" /\ At(bt_prev, <<2>>) # None)
          => bt_root = bt_prev
    /\ bt_root = None => (bt_prev = None \/ bt_call.op = "bt_reset")
    /\ Size(bt_root) <= 3
    /\ Size(At(bt_root, <<1>>)) <= 1
    /\ Size(At(bt_root, <<2>>)) <= 1
    /\ obt_call.op \in {"bt_left", "bt_right"}
          => /\ OldNodesKept(obt_prev, bt)
             /\ (obt_prev # None /\ obt_call.parent # NoParent)
                   => \/ \E p \in NodesWithId(obt_prev, obt_call.parent) :
                            At(obt_prev, p \o <<SideOf(obt_call.op)>>) = None
                      \/ bt = obt_prev
    /\ bt = None => (obt_prev = None \/ obt_call.op = "bt_reset")

\* An add-left with an accepted value on the full inner tree: the three
\* nodes are all still there, unchanged.
C26_Witness ==
    /\ bt_call.op = "bt_add_left"
    /\ bt_resp = "ok"
    /\ Size(bt_prev) = 3
    /\ bt_root = bt_prev
    /\ Strip(bt_call.arg.s) # ValOf(LeftOf(bt_prev))

\* An outer add_right naming a parent whose right slot is taken, and one
\* naming an id no node has: the tree is as before.
C26_WitnessOuter ==
    /\ obt_call.op = "bt_right"
    /\ Size(obt_prev) >= 3
    /\ bt = obt_prev
    /\ \/ obt_call.parent = UnknownId
       \/ \E p \in NodesWithId(obt_prev, obt_call.parent) :
             Len(p) >= 1 /\ At(obt_prev, p \o <<2>>) # None

====
